---- MODULE Spec2Model ----
(***************************************************************************)
(* A model of the benchmark runner of syzygy/scripts/benchmark/runner.py:  *)
(* ChromeRunner.Run and its hooks as overridden by BenchmarkRunner, and    *)
(* the counter group planner BenchmarkRunner._SetupIbmPerf.                *)
(*                                                                         *)
(* Spec      one BenchmarkRunner: construction, then Run(iterations).      *)
(* SpecPlan  the planner alone, over a wide range of catalogs and          *)
(*           requests, invoked by two runners built from the same inputs.  *)
(* SpecSink  the Metric Sink alone: _AddResult and _ProcessResults.        *)
(* SpecRpc   StartLoggingRpc and StopLoggingRpc and the service process.   *)
(* SpecWait  one call of _WaitTillChromeRunning, pass by pass.             *)
(* SpecFeed  the decoders _ProcessLogs, _ProcessIbmPerfResults and         *)
(*           _CaptureWorkingSetMetrics, each on any of its inputs.         *)
(* SpecProfile  one profile.ChromeProfileRunner: Run with the call-trace   *)
(*           service started in _SetUp and stopped in _TearDown.           *)
(* SpecTraces  one run of test_data/generate_traces._MainGenerateTraces.   *)
(* SpecSuite  one call of py/test_utils/testing.TestSuite._Run.            *)
(***************************************************************************)
EXTENDS Integers, Sequences, FiniteSets, TLC

VARIABLES
  cfg,              \* the constructor's arguments and the counter catalog
  pc,               \* where the runner is: "new", ..., "done"
  ibmperf,          \* self._ibmperf is set (not None)
  ibmperf_groups,   \* self._ibmperf_groups
  nonfree,          \* the local list nonfree of _SetupIbmPerf
  pc2,              \* a second runner built from the same arguments
  ibmperf_groups2,  \*   its self._ibmperf_groups
  nonfree2,         \*   its local list nonfree
  iterations,       \* the local iterations of Run (after the multiplication)
  i,                \* the loop variable of Run, -1 while unbound
  exc,              \* the exception in flight, "none" when there is none
  env_preload,      \* the global preload toggle (chrome_control.Get/SetPreload)
  entry_preload,    \* the toggle's value when Run was entered
  old_preload,      \* self._old_preload, "unset" before _SetUp saves it
  temp_dir,         \* self._temp_dir is set (not None)
  temp_exists,      \* the temporary directory exists on disk
  etw_logging,      \* an ETW logging session is running
  perf_running,     \* the hardware counters are being sampled
  perf_group,       \* the index of the group being sampled, 0 when none
  chrome,           \* the target: "stopped", "starting", "running"
  results,          \* self._results
  trace,            \* the calls made so far, in order
  added,            \* the calls of _AddResult so far, in order
  report,           \* the RESULT lines printed so far
  call_trace_service,   \* self._call_trace_service: 0 for None, else the
                        \*   index in services of the process it refers to
  call_trace_log_path,  \* self._call_trace_log_path is set (not None)
  call_trace_log_file,  \* self._call_trace_log_file: "None" or "open"
  services,         \* the call-trace service processes launched so far:
                    \*   -1 while a process runs, else its exit status
  rpc_pc,           \* where StartLoggingRpc or StopLoggingRpc is: "idle",
                    \*   "polling", "waiting"
  logged,           \* the dumps of the captured log, in order
  rpc_calls,        \* the calls of StartLoggingRpc and StopLoggingRpc
  sampled,          \* the groups handed to ibmperf.Start so far, each with
                    \*   the iteration that started it
  wait_pc,          \* where _WaitTillChromeRunning is: "idle", "polling",
                    \*   "returned", "terminated early", "timeout"
  wait_i,           \* its loop variable: the number of passes begun
  wait_exited,      \* the launched process has exited
  wait_observed,    \* what its polls found, in order
  wait_clock,       \* the seconds it has slept
  tool_out,         \* what an external tool handed to the step that
                    \*   decodes it, of kind "none" before any did
  gen,              \* generate_traces._MainGenerateTraces: where it is and
                    \*   its locals
  suite             \* testing.TestSuite._Run: where it is, its tests and
                    \*   its locals

vars == <<cfg, pc, ibmperf, ibmperf_groups, nonfree, pc2, ibmperf_groups2,
          nonfree2, iterations, i, exc, env_preload, entry_preload,
          old_preload, temp_dir, temp_exists, etw_logging, perf_running,
          perf_group, chrome, results, trace, added, report,
          call_trace_service, call_trace_log_path, call_trace_log_file,
          services, rpc_pc, logged, rpc_calls, sampled, wait_pc, wait_i,
          wait_exited, wait_observed, wait_clock, tool_out, gen, suite>>

planVars == <<ibmperf, ibmperf_groups, nonfree>>
plan2Vars == <<pc2, ibmperf_groups2, nonfree2>>
runVars == <<iterations, i, exc, env_preload, entry_preload, old_preload,
             temp_dir, temp_exists, etw_logging, perf_running, perf_group,
             chrome, results, trace, added, report, sampled>>
rpcVars == <<call_trace_service, call_trace_log_path, call_trace_log_file,
             services, rpc_pc, logged, rpc_calls>>
waitVars == <<wait_pc, wait_i, wait_exited, wait_observed, wait_clock>>
scriptVars == <<gen, suite>>
benchVars == <<env_preload, entry_preload, old_preload, temp_dir, temp_exists,
               etw_logging, perf_running, perf_group, results, added, report,
               sampled>>

----------------------------------------------------------------------------
(* Bounds of the model. *)

\* The largest iteration count passed to Run.
MaxIterations == 2

\* The largest hpc.max_counters.
MaxCounters == 2

\* The largest number of samples recorded in the sink specification.
MaxAdds == 3

\* The largest number of calls of StartLoggingRpc and StopLoggingRpc.
MaxRpcCalls == 3

\* The largest number of events of one kind the trace logs hold.
MaxEvents == 2

\* The largest number of subjects in a hardware-counter query result.
MaxPids == 2

\* The largest number of processes in a working-set snapshot.
MaxProcesses == 2

----------------------------------------------------------------------------
(* The Prefetch enumeration. *)

ENABLED_ == 0
DISABLED == 1
RESET_PRIOR_TO_FIRST_LAUNCH == 2

PrefetchModes == {ENABLED_, DISABLED, RESET_PRIOR_TO_FIRST_LAUNCH}

----------------------------------------------------------------------------
(* The counter catalog of ibmperf.HardwarePerformanceCounter, as           *)
(* _SetupIbmPerf reads it: hpc.metrics, hpc.free_metrics,                  *)
(* hpc.non_free_metrics, hpc.max_counters.                                 *)

\* Names a catalog may declare free.
FreeUniverse == {"CYCLES", "X"}

\* Names a catalog may declare non-free.
NonFreeUniverse == {"A", "B", "C", "D"}

\* The order in which the catalog declares the non-free counters.
CatalogOrder == <<"A", "B", "C", "D">>

\* hpc.metrics.keys(): every counter of the catalog.
AllMetrics(c) == c.free_metrics \cup c.non_free_metrics

----------------------------------------------------------------------------
(* BenchmarkRunner._SetupIbmPerf.                                          *)

\* list(s) of a Python set s: its elements once each, in the set's
\* iteration order, which the language leaves open.
ListOfSet(s) ==
  {l \in [1..Cardinality(s) -> s] : \A a \in s : \E k \in DOMAIN l : l[k] = a}

\* Metrics without the substitution of the catalog for an empty request.
MutMetrics(c) == c.ibmperf_metrics \cup c.free_metrics

\* metrics after lines 603-610: the request, or the whole catalog when the
\* request is empty, with the free metrics always added.
Metrics(c) ==
  (IF Cardinality(c.ibmperf_metrics) = 0 THEN AllMetrics(c)
                                         ELSE c.ibmperf_metrics)
    \cup c.free_metrics

\* metrics.intersection(hpc.non_free_metrics), the set line 613 lists.
NonFreeRequested(c) == Metrics(c) \cap c.non_free_metrics

\* Range0 with the last, partial chunk lost.
MutRange0(n, step) == [k \in 1..(n \div step) |-> (k - 1) * step]

\* range(0, n, step) for step > 0.
Range0(n, step) == [k \in 1..((n + step - 1) \div step) |-> (k - 1) * step]

\* SliceSet with the slice one element too long: lst[lo:lo + n + 1].
MutSliceSet(lst, lo, n) ==
  {lst[k] : k \in {k \in DOMAIN lst : lo < k /\ k <= lo + n + 1}}

\* set(lst[lo:lo + n]), Python's slice clipped to the list.
SliceSet(lst, lo, n) ==
  {lst[k] : k \in {k \in DOMAIN lst : lo < k /\ k <= lo + n}}

\* SetupIbmPerfRaises with the range built before the list is looked at.
MutSetupIbmPerfRaises(lst, c) == c.max_counters = 0

\* range(0, len(nonfree), hpc.max_counters) raises ValueError on a zero step.
SetupIbmPerfRaises(lst, c) == Len(lst) > 0 /\ c.max_counters = 0

\* Groups with the slice written nonfree[i:max_counters].
MutGroups(lst, c) ==
  IF Len(lst) > 0
    THEN LET starts == Range0(Len(lst), c.max_counters)
         IN  [g \in DOMAIN starts |->
                SliceSet(lst, starts[g], c.max_counters - starts[g])
                  \cup c.free_metrics]
    ELSE <<c.free_metrics>>

\* groups of lines 614-618.
Groups(lst, c) ==
  IF Len(lst) > 0
    THEN LET starts == Range0(Len(lst), c.max_counters)
         IN  [g \in DOMAIN starts |->
                SliceSet(lst, starts[g], c.max_counters) \cup c.free_metrics]
    ELSE <<c.free_metrics>>

----------------------------------------------------------------------------
(* Configurations. *)

Config(n, preload, prefetch, keep, run, req, free, nf, max) ==
  [iterations |-> n, preload |-> preload, prefetch |-> prefetch,
   keep_temp_dirs |-> keep, ibmperf_run |-> run, ibmperf_metrics |-> req,
   free_metrics |-> free, non_free_metrics |-> nf, max_counters |-> max]

\* The state of a runner before its constructor has run.
Fresh ==
  /\ pc = "new"
  /\ ibmperf = FALSE
  /\ ibmperf_groups = <<>>
  /\ nonfree = <<>>
  /\ pc2 = "new"
  /\ ibmperf_groups2 = <<>>
  /\ nonfree2 = <<>>
  /\ iterations = 0
  /\ i = -1
  /\ exc = "none"
  /\ env_preload \in BOOLEAN
  /\ entry_preload = env_preload
  /\ old_preload = "unset"
  /\ temp_dir = FALSE
  /\ temp_exists = FALSE
  /\ etw_logging = FALSE
  /\ perf_running = FALSE
  /\ perf_group = 0
  /\ chrome = "stopped"
  /\ results = <<>>
  /\ trace = <<>>
  /\ added = <<>>
  /\ report = <<>>
  /\ call_trace_service = 0
  /\ call_trace_log_path = FALSE
  /\ call_trace_log_file = "None"
  /\ services = <<>>
  /\ rpc_pc = "idle"
  /\ logged = <<>>
  /\ rpc_calls = <<>>
  /\ sampled = <<>>
  /\ wait_pc = "idle"
  /\ wait_i = 0
  /\ wait_exited = FALSE
  /\ wait_observed = <<>>
  /\ wait_clock = 0
  /\ tool_out = [kind |-> "none", value |-> <<>>]
  /\ gen = [pc |-> "idle", verbose |-> FALSE, loads |-> <<>>,
            load_dll_failed |-> FALSE, service |-> "none", result |-> -1,
            returncode |-> -1, count |-> -1, ret |-> -1]
  /\ suite = [pc |-> "idle", force |-> FALSE, tests |-> <<>>, runs |-> <<>>,
              success |-> TRUE, ret |-> "none"]

----------------------------------------------------------------------------
(* The calls the runner makes are recorded in trace: op names the call,    *)
(* it is the loop variable at the call, ok says whether it returned        *)
(* normally (for PostIteration: the value of its success argument).        *)

Ev(op, it, ok) == [op |-> op, it |-> it, ok |-> ok]

Opt(cond, ev) == IF cond THEN <<ev>> ELSE <<>>

----------------------------------------------------------------------------
(* The Metric Sink: self._results maps (graph_name, trace_name) to         *)
(* (units, samples). A trace name such as IbmPerf[CYCLES][0] is kept as    *)
(* the triple <<"IbmPerf", "CYCLES", "0">>.                                *)

\* '%d' % k for the ranks the model reaches.
RankStr(k) == <<"0", "1", "2", "3">>[k + 1]

Add(graph_name, trace_name, sample, units) ==
  [graph |-> graph_name, name |-> trace_name, sample |-> sample,
   units |-> units]

\* AddResult with the entry assigned, not looked up with setdefault.
MutAddResult(res, graph_name, trace_name, sample, units) ==
  LET key == <<graph_name, trace_name>>
  IN  IF key \in DOMAIN res
        THEN [res EXCEPT ![key] = [units |-> units, samples |-> <<sample>>]]
        ELSE res @@ (key :> [units |-> units, samples |-> <<sample>>])

\* AddResult with the stored unit replaced by the unit of the call.
MutAddResultLastUnit(res, graph_name, trace_name, sample, units) ==
  LET key == <<graph_name, trace_name>>
  IN  IF key \in DOMAIN res
        THEN [res EXCEPT ![key] = [units |-> units,
                                   samples |-> Append(@.samples, sample)]]
        ELSE res @@ (key :> [units |-> units, samples |-> <<sample>>])

\* _AddResult: setdefault((graph, trace), (units, [])), then append.
AddResult(res, graph_name, trace_name, sample, units) ==
  LET key == <<graph_name, trace_name>>
  IN  IF key \in DOMAIN res
        THEN [res EXCEPT ![key].samples = Append(@, sample)]
        ELSE res @@ (key :> [units |-> units, samples |-> <<sample>>])

\* A sequence of _AddResult calls, in order.
RECURSIVE AddResults(_, _)
AddResults(res, adds) ==
  IF adds = <<>> THEN res
  ELSE AddResults(AddResult(res, adds[1].graph, adds[1].name,
                            adds[1].sample, adds[1].units), Tail(adds))

----------------------------------------------------------------------------
(* What the external tools hand back in the runner specification.          *)

\* ibmperf.Query('chrome') while the group `group` is sampled: one subject,
\* pid 1, with a count for every counter of the group.
QueryResult(group) == [m \in group |-> [p \in {1} |-> 10]]

\* The (total_ws, chrome_ws) pairs read from wsdump's output: one process.
WsDumpResult == << << <<20, 5, 4, 3, 2, 1>>, <<10, 5, 4, 3, 2, 1>> >> >>

\* The counts LogEventCounter holds after Consume: message loop begin
\* times, process launch times, fault counts by module.
LogCounter ==
  [message_loop_begin |-> <<5>>, process_launch |-> <<1, 3>>,
   hardfaults |-> [m \in {"chrome.dll"} |-> 2],
   softfaults |-> [m \in {"chrome.dll"} |-> [t \in {"ZeroPage"} |-> 4]]]

\* _WS_OUTPUT_NAMES.
WS_OUTPUT_NAMES ==
  <<"Pages", "Shareable", "Shared", "ReadOnly", "Writable", "Executable">>

----------------------------------------------------------------------------
(* Orderings used by sorted() and list.sort().                             *)

\* Python's order on lists and tuples of integers, from position k on.
RECURSIVE LexLessFrom(_, _, _)
LexLessFrom(a, b, k) ==
  IF k > Len(a) THEN k <= Len(b)
  ELSE IF k > Len(b) THEN FALSE
  ELSE IF a[k] # b[k] THEN a[k] < b[k]
  ELSE LexLessFrom(a, b, k + 1)

\* Python's order on lists and tuples of integers.
LexLess(a, b) == LexLessFrom(a, b, 1)

\* Python's order on (total_ws, chrome_ws) pairs.
PairLess(a, b) ==
  IF a[1] # b[1] THEN LexLess(a[1], b[1]) ELSE LexLess(a[2], b[2])

\* SortPairs that leaves the list as wsdump gave it.
MutSortPairs(lst) == lst

\* results.sort() on a list of pairs.
SortPairs(lst) ==
  CHOOSE s \in [DOMAIN lst -> {lst[k] : k \in DOMAIN lst}] :
    /\ \A v \in {lst[k] : k \in DOMAIN lst} :
         Cardinality({k \in DOMAIN s : s[k] = v})
           = Cardinality({k \in DOMAIN lst : lst[k] = v})
    /\ \A j, k \in DOMAIN s : j < k => ~PairLess(s[k], s[j])

\* PidsByCount without reverse=True.
MutPidsByCount(counts) ==
  CHOOSE s \in [1..Cardinality(DOMAIN counts) -> DOMAIN counts] :
    /\ \A p \in DOMAIN counts : \E k \in DOMAIN s : s[k] = p
    /\ \A j, k \in DOMAIN s :
         j < k => LexLess(<<counts[s[j]], s[j]>>, <<counts[s[k]], s[k]>>)

\* sorted([(count, pid)], reverse=True), then the pids alone.
PidsByCount(counts) ==
  CHOOSE s \in [1..Cardinality(DOMAIN counts) -> DOMAIN counts] :
    /\ \A p \in DOMAIN counts : \E k \in DOMAIN s : s[k] = p
    /\ \A j, k \in DOMAIN s :
         j < k => LexLess(<<counts[s[k]], s[k]>>, <<counts[s[j]], s[j]>>)

\* Some enumeration of a set, for loops over a dict's items.
RECURSIVE SeqOf(_)
SeqOf(s) ==
  IF s = {} THEN <<>>
  ELSE LET x == CHOOSE x \in s : TRUE IN <<x>> \o SeqOf(s \ {x})

----------------------------------------------------------------------------
(* The report of _ProcessResults.                                          *)

\* The characters of the strings that occur in keys, as their codes.
Chars ==
     ("" :> <<>>)
  @@ ("Chrome" :> <<67, 104, 114, 111, 109, 101>>)
  @@ ("ChromeFrame" :> <<67, 104, 114, 111, 109, 101, 70, 114, 97, 109,
         101>>)
  @@ ("IbmPerf" :> <<73, 98, 109, 80, 101, 114, 102>>)
  @@ ("CYCLES" :> <<67, 89, 67, 76, 69, 83>>)
  @@ ("X" :> <<88>>)
  @@ ("A" :> <<65>>)
  @@ ("B" :> <<66>>)
  @@ ("0" :> <<48>>)
  @@ ("1" :> <<49>>)
  @@ ("2" :> <<50>>)
  @@ ("3" :> <<51>>)
  @@ ("TotalWs" :> <<84, 111, 116, 97, 108, 87, 115>>)
  @@ ("ChromeDllWs" :> <<67, 104, 114, 111, 109, 101, 68, 108, 108, 87,
         115>>)
  @@ ("Pages" :> <<80, 97, 103, 101, 115>>)
  @@ ("Shareable" :> <<83, 104, 97, 114, 101, 97, 98, 108, 101>>)
  @@ ("Shared" :> <<83, 104, 97, 114, 101, 100>>)
  @@ ("ReadOnly" :> <<82, 101, 97, 100, 79, 110, 108, 121>>)
  @@ ("Writable" :> <<87, 114, 105, 116, 97, 98, 108, 101>>)
  @@ ("Executable" :> <<69, 120, 101, 99, 117, 116, 97, 98, 108, 101>>)
  @@ ("HardPageFaults" :> <<72, 97, 114, 100, 80, 97, 103, 101, 70, 97,
         117, 108, 116, 115>>)
  @@ ("SoftPageFaults" :> <<83, 111, 102, 116, 80, 97, 103, 101, 70, 97,
         117, 108, 116, 115>>)
  @@ ("chrome.dll" :> <<99, 104, 114, 111, 109, 101, 46, 100, 108, 108>>)
  @@ ("ZeroPage" :> <<90, 101, 114, 111, 80, 97, 103, 101>>)
  @@ ("MessageLoopStartTime" :> <<77, 101, 115, 115, 97, 103, 101, 76, 111,
         111, 112, 83, 116, 97, 114, 116, 84, 105, 109, 101>>)
  @@ ("RendererLaunchTime" :> <<82, 101, 110, 100, 101, 114, 101, 114, 76,
         97, 117, 110, 99, 104, 84, 105, 109, 101>>)

\* '[%s]' % x as characters; a part the format does not have is kept as "".
Bracket(x) == IF x = "" THEN <<>> ELSE <<91>> \o Chars[x] \o <<93>>

\* The trace name as the string the runner builds, e.g. 'IbmPerf[%s][%d]'.
Format(name) == Chars[name[1]] \o Bracket(name[2]) \o Bracket(name[3])

\* KeyLess comparing the trace names before the graph names.
MutKeyLess(a, b) ==
  IF a[2] # b[2] THEN LexLess(Format(a[2]), Format(b[2]))
                 ELSE LexLess(Chars[a[1]], Chars[b[1]])

\* Python's order on the keys (graph_name, trace_name): tuples of strings.
KeyLess(a, b) ==
  IF a[1] # b[1] THEN LexLess(Chars[a[1]], Chars[b[1]])
                 ELSE LexLess(Format(a[2]), Format(b[2]))

\* The one element of a singleton set.
Only(S) == CHOOSE x \in S : TRUE

\* sorted(keys) of line 579: each key at the place given by the number of
\* keys less than it.
SortedKeys(keys) ==
  Only({[k \in 1..Cardinality(keys) |-> CHOOSE a \in keys : below[a] = k - 1] :
          below \in {[a \in keys |->
                        Cardinality({b \in keys : KeyLess(b, a)})]}})

\* One line of the report, kept as the four values substituted into
\* "RESULT %s: %s= %s %s" (lines 580-583).
ReportLine(key, res) ==
  [graph |-> key[1], trace |-> key[2], samples |-> res[key].samples,
   units |-> res[key].units]

\* The lines the loop of lines 579-583 prints.
ReportLines(res) ==
  Only({[k \in DOMAIN keys |-> ReportLine(keys[k], res)] :
          keys \in {SortedKeys(DOMAIN res)}})

----------------------------------------------------------------------------
(* The steps that feed the Metric Sink.                                    *)

\* _ProcessIbmPerfResults, given Query's result.
RECURSIVE PerfAdds(_, _, _)
PerfAdds(query, metrics, pids) ==
  IF metrics = <<>> THEN <<>>
  ELSE [k \in DOMAIN pids |->
          Add("Chrome", <<"IbmPerf", metrics[1], RankStr(k - 1)>>,
              query[metrics[1]][pids[k]], "")]
       \o PerfAdds(query, Tail(metrics), pids)

\* The calls of _AddResult that _ProcessIbmPerfResults makes, in order.
IbmPerfAdds(query) ==
  PerfAdds(query, SeqOf(DOMAIN query), PidsByCount(query["CYCLES"]))

\* ProcessIbmPerfResults reporting the CYCLES counter only.
MutProcessIbmPerfResults(res, query) ==
  AddResults(res, PerfAdds(query, <<"CYCLES">>, PidsByCount(query["CYCLES"])))

\* _ProcessIbmPerfResults: every call of _AddResult applied to the sink.
ProcessIbmPerfResults(res, query) == AddResults(res, IbmPerfAdds(query))

\* The two inner loops of _CaptureWorkingSetMetrics for one sorted record.
WsAddsOf(rec, rank) ==
  [k \in 1..6 |->
     Add("Chrome", <<"TotalWs", RankStr(rank), WS_OUTPUT_NAMES[k]>>,
         rec[1][k], "")]
  \o [k \in 1..6 |->
     Add("Chrome", <<"ChromeDllWs", RankStr(rank), WS_OUTPUT_NAMES[k]>>,
         rec[2][k], "")]

RECURSIVE WsAdds(_, _)
WsAdds(sorted, rank) ==
  IF rank >= Len(sorted) THEN <<>>
  ELSE WsAddsOf(sorted[rank + 1], rank) \o WsAdds(sorted, rank + 1)

\* The calls of _AddResult that _CaptureWorkingSetMetrics makes, in order.
WorkingSetAdds(pairs) == WsAdds(SortPairs(pairs), 0)

\* _CaptureWorkingSetMetrics after wsdump returned 0.
CaptureWorkingSetMetrics(res, pairs) == AddResults(res, WorkingSetAdds(pairs))

\* The hard fault loop of _ProcessLogs (lines 542-543).
HardFaultAdds(counter) ==
  LET modules == SeqOf(DOMAIN counter.hardfaults)
  IN  [k \in DOMAIN modules |->
         Add("Chrome", <<"HardPageFaults", modules[k], "">>,
             counter.hardfaults[modules[k]], "")]

\* The soft fault loops of _ProcessLogs (lines 545-549).
SoftFaultAdds(counter) ==
  LET pairs == SeqOf(UNION {{<<m, t>> : t \in DOMAIN counter.softfaults[m]} :
                              m \in DOMAIN counter.softfaults})
  IN  [k \in DOMAIN pairs |->
         Add("Chrome", <<"SoftPageFaults", pairs[k][1], pairs[k][2]>>,
             counter.softfaults[pairs[k][1]][pairs[k][2]], "")]

\* TimingAdds asking for three launches before it records the second timing.
MutTimingAdds(counter) ==
  Opt(Len(counter.message_loop_begin) > 0 /\ Len(counter.process_launch) > 0,
      Add("Chrome", <<"MessageLoopStartTime", "", "">>,
          counter.message_loop_begin[1] - counter.process_launch[1], "s"))
  \o Opt(Len(counter.process_launch) >= 3,
         Add("Chrome", <<"RendererLaunchTime", "", "">>,
             counter.process_launch[2] - counter.process_launch[1], "s"))

\* The two timings of _ProcessLogs, each recorded only when its events
\* were counted (lines 551-564).
TimingAdds(counter) ==
  Opt(Len(counter.message_loop_begin) > 0 /\ Len(counter.process_launch) > 0,
      Add("Chrome", <<"MessageLoopStartTime", "", "">>,
          counter.message_loop_begin[1] - counter.process_launch[1], "s"))
  \o Opt(Len(counter.process_launch) >= 2,
         Add("Chrome", <<"RendererLaunchTime", "", "">>,
             counter.process_launch[2] - counter.process_launch[1], "s"))

\* LogAdds with the timings recorded before the fault counts.
MutLogAdds(counter) ==
  TimingAdds(counter) \o HardFaultAdds(counter) \o SoftFaultAdds(counter)

\* The calls of _AddResult that _ProcessLogs makes, in order: the hard
\* fault counts, the soft fault counts, then the timings (lines 542-564).
LogAdds(counter) ==
  HardFaultAdds(counter) \o SoftFaultAdds(counter) \o TimingAdds(counter)

\* _ProcessLogs after the logs were consumed.
ProcessLogs(res, counter) == AddResults(res, LogAdds(counter))

\* The calls of _AddResult as added keeps them: with the iteration.
Tagged(adds, it) == [k \in DOMAIN adds |-> [it |-> it, add |-> adds[k]]]

----------------------------------------------------------------------------
(* BenchmarkRunner.__init__: the planner runs in the constructor.          *)

Construct ==
  /\ pc = "new"
  /\ IF ~cfg.ibmperf_run
       THEN /\ ibmperf' = FALSE
            /\ ibmperf_groups' = <<>>
            /\ nonfree' = <<>>
            /\ pc' = "constructed"
            /\ exc' = exc
       ELSE \E lst \in ListOfSet(NonFreeRequested(cfg)) :
              /\ nonfree' = lst
              /\ IF SetupIbmPerfRaises(lst, cfg)
                   THEN /\ ibmperf' = FALSE
                        /\ ibmperf_groups' = <<>>
                        /\ pc' = "ctor_raised"
                        /\ exc' = "ValueError"
                   ELSE /\ ibmperf' = TRUE
                        /\ ibmperf_groups' = Groups(lst, cfg)
                        /\ pc' = "constructed"
                        /\ exc' = exc
  /\ UNCHANGED <<cfg, scriptVars, rpcVars, waitVars, tool_out, sampled, plan2Vars, iterations, i, env_preload,
                 entry_preload, old_preload, temp_dir, temp_exists,
                 etw_logging, perf_running, perf_group, chrome, results,
                 added, trace, report>>

\* A second BenchmarkRunner constructed from the same arguments.
Construct2 ==
  /\ pc2 = "new"
  /\ cfg.ibmperf_run
  /\ \E lst \in ListOfSet(NonFreeRequested(cfg)) :
       /\ nonfree2' = lst
       /\ IF SetupIbmPerfRaises(lst, cfg)
            THEN /\ ibmperf_groups2' = <<>>
                 /\ pc2' = "ctor_raised"
            ELSE /\ ibmperf_groups2' = Groups(lst, cfg)
                 /\ pc2' = "constructed"
  /\ UNCHANGED <<cfg, scriptVars, rpcVars, waitVars, tool_out, pc, planVars, runVars>>

----------------------------------------------------------------------------
(* BenchmarkRunner.Run and ChromeRunner.Run.                               *)

\* RunEnter without the multiplication by the number of groups.
MutRunEnter ==
  /\ pc = "constructed"
  /\ iterations' = cfg.iterations
  /\ entry_preload' = env_preload
  /\ pc' = "setup"
  /\ UNCHANGED <<cfg, scriptVars, rpcVars, waitVars, tool_out, sampled, planVars, plan2Vars, i, exc, env_preload,
                 old_preload, temp_dir, temp_exists, etw_logging,
                 perf_running, perf_group, chrome, results, added, trace,
                 report>>

\* BenchmarkRunner.Run: the iteration count times the number of groups.
RunEnter ==
  /\ pc = "constructed"
  /\ iterations' = IF ibmperf THEN cfg.iterations * Len(ibmperf_groups)
                              ELSE cfg.iterations
  /\ entry_preload' = env_preload
  /\ pc' = "setup"
  /\ UNCHANGED <<cfg, scriptVars, rpcVars, waitVars, tool_out, sampled, planVars, plan2Vars, i, exc, env_preload,
                 old_preload, temp_dir, temp_exists, etw_logging,
                 perf_running, perf_group, chrome, results, added, trace,
                 report>>

\* BenchmarkRunner._SetUp, called outside Run's try statement: the base
\* set-up (which may fail waiting for Chrome while it initializes the
\* profile), then the preload toggle is saved and set, then mkdtemp.
SetUp ==
  /\ pc = "setup"
  /\ \E failure \in {"none", "base", "mkdtemp"} :
       /\ trace' = trace
            \o <<Ev("SetUpBase", i, failure # "base")>>
            \o Opt(failure # "base", Ev("SetPreload", i, TRUE))
            \o Opt(failure # "base", Ev("mkdtemp", i, failure = "none"))
       /\ old_preload' = IF failure = "base" THEN old_preload ELSE env_preload
       /\ env_preload' = IF failure = "base" THEN env_preload ELSE cfg.preload
       /\ temp_dir' = (failure = "none")
       /\ temp_exists' = (failure = "none")
       /\ exc' = IF failure = "none" THEN exc ELSE "SetUp"
       /\ pc' = IF failure = "none" THEN "loop" ELSE "done"
  /\ UNCHANGED <<cfg, scriptVars, rpcVars, waitVars, tool_out, sampled, planVars, plan2Vars, iterations, i,
                 entry_preload, etw_logging, perf_running, perf_group,
                 chrome, results, added, report>>

\* Loop leaving the try statement after the last iteration without the
\* report.
MutLoop ==
  /\ pc = "loop"
  /\ IF i + 1 < iterations
       THEN /\ i' = i + 1
            /\ pc' = "pre"
       ELSE /\ i' = i
            /\ pc' = "finally"
  /\ UNCHANGED <<cfg, scriptVars, rpcVars, waitVars, tool_out, sampled, planVars, plan2Vars, iterations, exc,
                 env_preload, entry_preload, old_preload, temp_dir,
                 temp_exists, etw_logging, perf_running, perf_group, chrome,
                 results, added, trace, report>>

\* for i in range(iterations), and _ProcessResults after the last one.
Loop ==
  /\ pc = "loop"
  /\ IF i + 1 < iterations
       THEN /\ i' = i + 1
            /\ pc' = "pre"
       ELSE /\ i' = i
            /\ pc' = "results"
  /\ UNCHANGED <<cfg, scriptVars, rpcVars, waitVars, tool_out, sampled, planVars, plan2Vars, iterations, exc,
                 env_preload, entry_preload, old_preload, temp_dir,
                 temp_exists, etw_logging, perf_running, perf_group, chrome,
                 results, added, trace, report>>

\* PreDeletesPrefetch without the test of the policy's kind: the files are
\* deleted before the first iteration only.
MutPreDeletesPrefetchFirstOnly(it) ==
  it = 0 /\ cfg.prefetch \in {DISABLED, RESET_PRIOR_TO_FIRST_LAUNCH}

\* PreDeletesPrefetch without the test i == 0.
MutPreDeletesPrefetchAlways(it) ==
  cfg.prefetch \in {DISABLED, RESET_PRIOR_TO_FIRST_LAUNCH}

\* Whether _PreIteration(it) deletes the prefetch files (lines 497-498).
PreDeletesPrefetch(it) ==
  \/ cfg.prefetch = DISABLED
  \/ (it = 0 /\ cfg.prefetch = RESET_PRIOR_TO_FIRST_LAUNCH)

\* PostDeletesPrefetch of a hook that never deletes.
MutPostDeletesPrefetch == FALSE

\* Whether _PostIteration(i, True) deletes the prefetch files (line 511).
PostDeletesPrefetch == cfg.prefetch = DISABLED

\* GroupOf that starts the first group in every iteration.
MutGroupOf(it) == 1

\* The group _StartIbmPerf(it) starts, as an index into the group list.
GroupOf(it) == (it % Len(ibmperf_groups)) + 1

\* PreIteration starting the counters before it deletes the prefetch files.
MutPreIteration ==
  /\ pc = "pre"
  /\ \E started \in BOOLEAN :
       /\ etw_logging' = started
       /\ trace' = trace
            \o <<Ev("PreIteration", i, TRUE), Ev("StartLoggingEtw", i, started)>>
            \o Opt(started /\ ibmperf, Ev("StartIbmPerf", i, TRUE))
            \o Opt(started /\ PreDeletesPrefetch(i), Ev("DeletePrefetch", i, TRUE))
       /\ perf_running' = IF started /\ ibmperf THEN TRUE ELSE perf_running
       /\ perf_group' = IF started /\ ibmperf THEN GroupOf(i) ELSE perf_group
       /\ sampled' = sampled
            \o Opt(started /\ ibmperf,
                   [it |-> i, metrics |-> ibmperf_groups[GroupOf(i)]])
       /\ exc' = IF started THEN exc ELSE "StartLoggingEtw"
       /\ pc' = IF started THEN "launch" ELSE "except"
  /\ UNCHANGED <<cfg, scriptVars, rpcVars, waitVars, tool_out, planVars, plan2Vars, iterations, i,
                 env_preload, entry_preload, old_preload, temp_dir,
                 temp_exists, chrome, results, added, report>>

\* BenchmarkRunner._PreIteration: _StartLogging (StartLoggingEtw first
\* stops any running session, then starts one and raises when the start
\* command returns non-zero), _DeletePrefetch, _StartIbmPerf.
PreIteration ==
  /\ pc = "pre"
  /\ \E started \in BOOLEAN :
       /\ etw_logging' = started
       /\ trace' = trace
            \o <<Ev("PreIteration", i, TRUE), Ev("StartLoggingEtw", i, started)>>
            \o Opt(started /\ PreDeletesPrefetch(i), Ev("DeletePrefetch", i, TRUE))
            \o Opt(started /\ ibmperf, Ev("StartIbmPerf", i, TRUE))
       /\ perf_running' = IF started /\ ibmperf THEN TRUE ELSE perf_running
       /\ perf_group' = IF started /\ ibmperf THEN GroupOf(i) ELSE perf_group
       /\ sampled' = sampled
            \o Opt(started /\ ibmperf,
                   [it |-> i, metrics |-> ibmperf_groups[GroupOf(i)]])
       /\ exc' = IF started THEN exc ELSE "StartLoggingEtw"
       /\ pc' = IF started THEN "launch" ELSE "except"
  /\ UNCHANGED <<cfg, scriptVars, rpcVars, waitVars, tool_out, planVars, plan2Vars, iterations, i,
                 env_preload, entry_preload, old_preload, temp_dir,
                 temp_exists, chrome, results, added, report>>

\* _RunOneIteration, line 313: _LaunchChrome (subprocess.Popen may raise).
LaunchChrome ==
  /\ pc = "launch"
  /\ \E launched \in BOOLEAN :
       /\ trace' = Append(trace, Ev("LaunchChrome", i, launched))
       /\ chrome' = IF launched THEN "starting" ELSE chrome
       /\ exc' = IF launched THEN exc ELSE "LaunchChrome"
       /\ pc' = IF launched THEN "wait" ELSE "except"
  /\ UNCHANGED <<cfg, scriptVars, rpcVars, waitVars, tool_out, sampled, planVars, plan2Vars, iterations, i,
                 env_preload, entry_preload, old_preload, temp_dir,
                 temp_exists, etw_logging, perf_running, perf_group,
                 results, added, report>>

\* _RunOneIteration, line 314: _WaitTillChromeRunning, called before the
\* try statement. It returns when the profile is found running, raises when
\* the process exited first, and raises after its last poll.
WaitTillChromeRunning ==
  /\ pc = "wait"
  /\ \E outcome \in {"running", "terminated early", "timeout"} :
       /\ trace' = Append(trace, Ev("WaitTillChromeRunning", i,
                                    outcome = "running"))
       /\ chrome' = CASE outcome = "running" -> "running"
                      [] outcome = "terminated early" -> "stopped"
                      [] OTHER -> chrome
       /\ exc' = IF outcome = "running" THEN exc ELSE outcome
       /\ pc' = IF outcome = "running" THEN "do" ELSE "except"
  /\ UNCHANGED <<cfg, scriptVars, rpcVars, waitVars, tool_out, sampled, planVars, plan2Vars, iterations, i,
                 env_preload, entry_preload, old_preload, temp_dir,
                 temp_exists, etw_logging, perf_running, perf_group,
                 results, added, report>>

\* BenchmarkRunner._DoIteration inside the try statement: the counters are
\* queried and recorded, then wsdump is run and raises on a non-zero return.
DoIteration ==
  /\ pc = "do"
  /\ \E wsdump_ok \in BOOLEAN :
       LET r1 == IF ibmperf
                   THEN ProcessIbmPerfResults(results,
                          QueryResult(ibmperf_groups[perf_group]))
                   ELSE results
           a1 == IF ibmperf
                   THEN IbmPerfAdds(QueryResult(ibmperf_groups[perf_group]))
                   ELSE <<>>
       IN  /\ results' = IF wsdump_ok
                           THEN CaptureWorkingSetMetrics(r1, WsDumpResult)
                           ELSE r1
           /\ added' = added \o Tagged(a1, i)
                \o (IF wsdump_ok THEN Tagged(WorkingSetAdds(WsDumpResult), i)
                                 ELSE <<>>)
           /\ trace' = trace
                \o Opt(ibmperf, Ev("Query", i, TRUE))
                \o <<Ev("wsdump", i, wsdump_ok), Ev("DoIteration", i, wsdump_ok)>>
           /\ exc' = IF wsdump_ok THEN exc ELSE "DoIteration"
  /\ pc' = "finally_shutdown"
  /\ UNCHANGED <<cfg, scriptVars, rpcVars, waitVars, tool_out, sampled, planVars, plan2Vars, iterations, i,
                 env_preload, entry_preload, old_preload, temp_dir,
                 temp_exists, etw_logging, perf_running, perf_group, chrome,
                 report>>

\* ShutDown written after the call of _DoIteration, not in a finally clause.
MutShutDown ==
  /\ pc = "finally_shutdown"
  /\ trace' = IF exc = "none" THEN Append(trace, Ev("ShutDown", i, TRUE))
                              ELSE trace
  /\ chrome' = IF exc = "none" THEN "stopped" ELSE chrome
  /\ pc' = IF exc = "none" THEN "post" ELSE "except"
  /\ UNCHANGED <<cfg, scriptVars, rpcVars, waitVars, tool_out, sampled, planVars, plan2Vars, iterations, i, exc,
                 env_preload, entry_preload, old_preload, temp_dir,
                 temp_exists, etw_logging, perf_running, perf_group,
                 results, added, report>>

\* _RunOneIteration, lines 317-319: the finally clause around _DoIteration.
ShutDown ==
  /\ pc = "finally_shutdown"
  /\ trace' = Append(trace, Ev("ShutDown", i, TRUE))
  /\ chrome' = "stopped"
  /\ pc' = IF exc = "none" THEN "post" ELSE "except"
  /\ UNCHANGED <<cfg, scriptVars, rpcVars, waitVars, tool_out, sampled, planVars, plan2Vars, iterations, i, exc,
                 env_preload, entry_preload, old_preload, temp_dir,
                 temp_exists, etw_logging, perf_running, perf_group,
                 results, added, report>>

\* BenchmarkRunner._PostIteration(i, True): the counters and the logging
\* are stopped (StopLoggingEtw raises when the stop command returns
\* non-zero), the logs are processed, the prefetch files deleted.
PostIteration ==
  /\ pc = "post"
  /\ \E failure \in {"none", "StopLoggingEtw", "ProcessLogs"} :
       /\ trace' = trace
            \o <<Ev("PostIteration", i, TRUE)>>
            \o Opt(ibmperf, Ev("StopIbmPerf", i, TRUE))
            \o <<Ev("StopLoggingEtw", i, failure # "StopLoggingEtw")>>
            \o Opt(failure # "StopLoggingEtw",
                   Ev("ProcessLogs", i, failure = "none"))
            \o Opt(failure = "none" /\ PostDeletesPrefetch,
                   Ev("DeletePrefetch", i, TRUE))
       /\ perf_running' = IF ibmperf THEN FALSE ELSE perf_running
       /\ perf_group' = IF ibmperf THEN 0 ELSE perf_group
       /\ etw_logging' = IF failure = "StopLoggingEtw" THEN etw_logging
                                                      ELSE FALSE
       /\ results' = IF failure = "none" THEN ProcessLogs(results, LogCounter)
                                         ELSE results
       /\ added' = IF failure = "none"
                     THEN added \o Tagged(LogAdds(LogCounter), i)
                     ELSE added
       /\ exc' = IF failure = "none" THEN exc ELSE failure
       /\ pc' = IF failure = "none" THEN "loop" ELSE "except"
  /\ UNCHANGED <<cfg, scriptVars, rpcVars, waitVars, tool_out, sampled, planVars, plan2Vars, iterations, i,
                 env_preload, entry_preload, old_preload, temp_dir,
                 temp_exists, chrome, report>>

\* What a caller of _AddResult passes in the sink specification.
SinkGraphs == {"Chrome", "ChromeFrame"}
SinkTraces == {<<"RendererLaunchTime", "", "">>, <<"IbmPerf", "CYCLES", "0">>}
SinkSamples == {1, 2}
SinkUnits == {"", "s"}

\* One call of _AddResult(graph_name, trace_name, sample, units), made
\* before the report is printed.
AddResultCall ==
  /\ pc = "results"
  /\ Len(added) < MaxAdds
  /\ \E graph_name \in SinkGraphs, trace_name \in SinkTraces,
        sample \in SinkSamples, units \in SinkUnits :
       /\ results' = AddResult(results, graph_name, trace_name, sample, units)
       /\ added' = added
            \o Tagged(<<Add(graph_name, trace_name, sample, units)>>, i)
  /\ UNCHANGED <<cfg, scriptVars, rpcVars, waitVars, tool_out, sampled, pc, planVars, plan2Vars, iterations, i, exc,
                 env_preload, entry_preload, old_preload, temp_dir,
                 temp_exists, etw_logging, perf_running, perf_group, chrome,
                 trace, report>>

\* The numbers of lines after which the printing of a report of len lines
\* is interrupted: none, one, all but one, all.
PrintStops(len) == {0, 1, len - 1, len} \cap 0..len

\* BenchmarkRunner._ProcessResults: the report is printed line by line;
\* when printing is interrupted, the lines printed before stay printed.
ProcessResults ==
  /\ pc = "results"
  /\ \E lines \in {ReportLines(results)} :
       \E printed \in BOOLEAN :
         \E n \in IF printed THEN {Len(lines)} ELSE PrintStops(Len(lines)) :
           /\ report' = report \o SubSeq(lines, 1, n)
           /\ trace' = Append(trace, Ev("ProcessResults", i, printed))
           /\ exc' = IF printed THEN exc ELSE "ProcessResults"
           /\ pc' = IF printed THEN "finally" ELSE "except"
  /\ UNCHANGED <<cfg, scriptVars, rpcVars, waitVars, tool_out, sampled, planVars, plan2Vars, iterations, i,
                 env_preload, entry_preload, old_preload, temp_dir,
                 temp_exists, etw_logging, perf_running, perf_group, chrome,
                 results, added>>

\* Except with _TearDown called after the try statement, not in a finally
\* clause: the error leaves Run from the except clause.
MutExceptNoFinally ==
  /\ pc = "except"
  /\ IF i = -1
       THEN /\ exc' = "UnboundLocalError"
            /\ trace' = trace
            /\ UNCHANGED <<perf_running, perf_group, etw_logging>>
       ELSE \E stopped \in BOOLEAN :
              /\ trace' = trace
                   \o <<Ev("PostIteration", i, FALSE)>>
                   \o Opt(ibmperf, Ev("StopIbmPerf", i, TRUE))
                   \o <<Ev("StopLoggingEtw", i, stopped)>>
              /\ perf_running' = IF ibmperf THEN FALSE ELSE perf_running
              /\ perf_group' = IF ibmperf THEN 0 ELSE perf_group
              /\ etw_logging' = IF stopped THEN FALSE ELSE etw_logging
              /\ exc' = IF stopped THEN exc ELSE "StopLoggingEtw in cleanup"
  /\ pc' = "done"
  /\ UNCHANGED <<cfg, scriptVars, rpcVars, waitVars, tool_out, sampled, planVars, plan2Vars, iterations, i,
                 env_preload, entry_preload, old_preload, temp_dir,
                 temp_exists, chrome, results, added, report>>

\* Except with a _PostIteration that does not return early on failure:
\* it goes on to process the logs and to delete the prefetch files.
MutExceptProcessesLogs ==
  /\ pc = "except"
  /\ IF i = -1
       THEN /\ exc' = "UnboundLocalError"
            /\ trace' = trace
            /\ UNCHANGED <<perf_running, perf_group, etw_logging, results,
                           added>>
       ELSE \E stopped \in BOOLEAN :
              /\ trace' = trace
                   \o <<Ev("PostIteration", i, FALSE)>>
                   \o Opt(ibmperf, Ev("StopIbmPerf", i, TRUE))
                   \o <<Ev("StopLoggingEtw", i, stopped)>>
                   \o Opt(stopped, Ev("ProcessLogs", i, TRUE))
                   \o Opt(stopped /\ cfg.prefetch = DISABLED,
                          Ev("DeletePrefetch", i, TRUE))
              /\ results' = IF stopped THEN ProcessLogs(results, LogCounter)
                                       ELSE results
              /\ added' = IF stopped
                            THEN added \o Tagged(LogAdds(LogCounter), i)
                            ELSE added
              /\ perf_running' = IF ibmperf THEN FALSE ELSE perf_running
              /\ perf_group' = IF ibmperf THEN 0 ELSE perf_group
              /\ etw_logging' = IF stopped THEN FALSE ELSE etw_logging
              /\ exc' = IF stopped THEN exc ELSE "StopLoggingEtw in cleanup"
  /\ pc' = "finally"
  /\ UNCHANGED <<cfg, scriptVars, rpcVars, waitVars, tool_out, sampled, planVars, plan2Vars, iterations, i,
                 env_preload, entry_preload, old_preload, temp_dir,
                 temp_exists, chrome, report>>

\* Except without the raise: the error is dropped and the loop goes on.
MutExceptContinues ==
  /\ pc = "except"
  /\ IF i = -1
       THEN /\ exc' = "none"
            /\ trace' = trace
            /\ UNCHANGED <<perf_running, perf_group, etw_logging>>
       ELSE \E stopped \in BOOLEAN :
              /\ trace' = trace
                   \o <<Ev("PostIteration", i, FALSE)>>
                   \o Opt(ibmperf, Ev("StopIbmPerf", i, TRUE))
                   \o <<Ev("StopLoggingEtw", i, stopped)>>
              /\ perf_running' = IF ibmperf THEN FALSE ELSE perf_running
              /\ perf_group' = IF ibmperf THEN 0 ELSE perf_group
              /\ etw_logging' = IF stopped THEN FALSE ELSE etw_logging
              /\ exc' = "none"
  /\ pc' = "loop"
  /\ UNCHANGED <<cfg, scriptVars, rpcVars, waitVars, tool_out, sampled, planVars, plan2Vars, iterations, i,
                 env_preload, entry_preload, old_preload, temp_dir,
                 temp_exists, chrome, results, added, report>>

\* The except clause of Run, lines 276-283: the failure is logged with i
\* (unbound when the loop never ran), _PostIteration(i, False) stops the
\* counters and the logging and returns, and the error is raised again.
Except ==
  /\ pc = "except"
  /\ IF i = -1
       THEN /\ exc' = "UnboundLocalError"
            /\ trace' = trace
            /\ UNCHANGED <<perf_running, perf_group, etw_logging>>
       ELSE \E stopped \in BOOLEAN :
              /\ trace' = trace
                   \o <<Ev("PostIteration", i, FALSE)>>
                   \o Opt(ibmperf, Ev("StopIbmPerf", i, TRUE))
                   \o <<Ev("StopLoggingEtw", i, stopped)>>
              /\ perf_running' = IF ibmperf THEN FALSE ELSE perf_running
              /\ perf_group' = IF ibmperf THEN 0 ELSE perf_group
              /\ etw_logging' = IF stopped THEN FALSE ELSE etw_logging
              /\ exc' = IF stopped THEN exc ELSE "StopLoggingEtw in cleanup"
  /\ pc' = "finally"
  /\ UNCHANGED <<cfg, scriptVars, rpcVars, waitVars, tool_out, sampled, planVars, plan2Vars, iterations, i,
                 env_preload, entry_preload, old_preload, temp_dir,
                 temp_exists, chrome, results, added, report>>

\* TearDown deleting the temporary directory before it restores the
\* preload toggle.
MutTearDownDeletesFirst ==
  /\ pc = "finally"
  /\ trace' = trace
       \o <<Ev("TearDown", i, TRUE)>>
       \o Opt(temp_dir /\ ~cfg.keep_temp_dirs, Ev("rmtree", i, TRUE))
       \o <<Ev("RestorePreload", i, TRUE), Ev("BaseTearDown", i, TRUE)>>
  /\ env_preload' = old_preload
  /\ temp_dir' = IF temp_dir /\ ~cfg.keep_temp_dirs THEN FALSE ELSE temp_dir
  /\ temp_exists' = IF temp_dir /\ ~cfg.keep_temp_dirs THEN FALSE
                                                       ELSE temp_exists
  /\ pc' = "done"
  /\ UNCHANGED <<cfg, scriptVars, rpcVars, waitVars, tool_out, sampled, planVars, plan2Vars, iterations, i, exc,
                 entry_preload, old_preload, etw_logging, perf_running,
                 perf_group, chrome, results, added, report>>

\* TearDown deleting the temporary directory whether or not it is kept.
MutTearDownIgnoresKeep ==
  /\ pc = "finally"
  /\ trace' = trace
       \o <<Ev("TearDown", i, TRUE), Ev("RestorePreload", i, TRUE)>>
       \o Opt(temp_dir, Ev("rmtree", i, TRUE))
       \o <<Ev("BaseTearDown", i, TRUE)>>
  /\ env_preload' = old_preload
  /\ temp_dir' = IF temp_dir THEN FALSE ELSE temp_dir
  /\ temp_exists' = IF temp_dir THEN FALSE
                                                       ELSE temp_exists
  /\ pc' = "done"
  /\ UNCHANGED <<cfg, scriptVars, rpcVars, waitVars, tool_out, sampled, planVars, plan2Vars, iterations, i, exc,
                 entry_preload, old_preload, etw_logging, perf_running,
                 perf_group, chrome, results, added, report>>

\* TearDown with self._results emptied.
MutTearDown ==
  /\ pc = "finally"
  /\ trace' = trace
       \o <<Ev("TearDown", i, TRUE), Ev("RestorePreload", i, TRUE)>>
       \o Opt(temp_dir /\ ~cfg.keep_temp_dirs, Ev("rmtree", i, TRUE))
       \o <<Ev("BaseTearDown", i, TRUE)>>
  /\ env_preload' = old_preload
  /\ temp_dir' = IF temp_dir /\ ~cfg.keep_temp_dirs THEN FALSE ELSE temp_dir
  /\ temp_exists' = IF temp_dir /\ ~cfg.keep_temp_dirs THEN FALSE
                                                       ELSE temp_exists
  /\ results' = <<>>
  /\ pc' = "done"
  /\ UNCHANGED <<cfg, scriptVars, rpcVars, waitVars, tool_out, sampled, planVars, plan2Vars, iterations, i, exc,
                 entry_preload, old_preload, etw_logging, perf_running,
                 perf_group, chrome, added, report>>

\* The finally clause of Run: BenchmarkRunner._TearDown restores the
\* preload toggle, deletes the temporary directory unless it is kept, and
\* runs the base tear-down; then Run returns or the error leaves it.
TearDown ==
  /\ pc = "finally"
  /\ trace' = trace
       \o <<Ev("TearDown", i, TRUE), Ev("RestorePreload", i, TRUE)>>
       \o Opt(temp_dir /\ ~cfg.keep_temp_dirs, Ev("rmtree", i, TRUE))
       \o <<Ev("BaseTearDown", i, TRUE)>>
  /\ env_preload' = old_preload
  /\ temp_dir' = IF temp_dir /\ ~cfg.keep_temp_dirs THEN FALSE ELSE temp_dir
  /\ temp_exists' = IF temp_dir /\ ~cfg.keep_temp_dirs THEN FALSE
                                                       ELSE temp_exists
  /\ pc' = "done"
  /\ UNCHANGED <<cfg, scriptVars, rpcVars, waitVars, tool_out, sampled, planVars, plan2Vars, iterations, i, exc,
                 entry_preload, old_preload, etw_logging, perf_running,
                 perf_group, chrome, results, added, report>>

----------------------------------------------------------------------------
(* ChromeRunner.StartLoggingRpc and ChromeRunner.StopLoggingRpc. Each call *)
(* is recorded in rpc_calls with the value of self._call_trace_service     *)
(* when it was made, the results of its polls, whether it waited for the   *)
(* service process, how it ended and the status its error carries.         *)

\* RpcStartPolls with one poll less.
MutRpcStartPolls == 5 - 1

\* xrange(5) of line 209: the number of polls, one second apart.
RpcStartPolls == 5

RpcCall(op, handle) ==
  [op |-> op, handle |-> handle, observed |-> <<>>, slept |-> 0,
   waited |-> FALSE, result |-> "running", error |-> "none", status |-> -1]

\* The call in progress, or the last one made.
LastRpcCall == rpc_calls[Len(rpc_calls)]

\* rpc_calls with the last call changed.
WithLastRpcCall(call) == [rpc_calls EXCEPT ![Len(rpc_calls)] = call]

\* DumpCallTraceLog with nothing handed to the logger.
MutDumpCallTraceLog(logger) == logged

\* _DumpCallTraceLog(logger): the lines of the captured log are handed to
\* logger, _LOGGER.error or _LOGGER.info.
DumpCallTraceLog(logger) ==
  Append(logged, [severity |-> logger, call |-> Len(rpc_calls)])

\* StartLoggingRpc, lines 187-204: the log file is created and the service
\* process launched (subprocess.Popen may raise).
StartLoggingRpc ==
  /\ rpc_pc = "idle"
  /\ Len(rpc_calls) < MaxRpcCalls
  /\ call_trace_log_path' = TRUE
  /\ call_trace_log_file' = "open"
  /\ \E launched \in BOOLEAN :
       IF launched
         THEN /\ services' = Append(services, -1)
              /\ call_trace_service' = Len(services) + 1
              /\ rpc_pc' = "polling"
              /\ rpc_calls' = Append(rpc_calls,
                   RpcCall("StartLoggingRpc", call_trace_service))
         ELSE /\ rpc_calls' = Append(rpc_calls,
                   [RpcCall("StartLoggingRpc", call_trace_service)
                      EXCEPT !.result = "raised", !.error = "Popen"])
              /\ UNCHANGED <<services, call_trace_service, rpc_pc>>
  /\ UNCHANGED <<cfg, scriptVars, pc, planVars, plan2Vars, runVars, waitVars, tool_out, logged>>

\* StartLoggingRpc, lines 209-216: one pass of the loop sleeps a second
\* and polls the process; when it has exited, the log is dumped at error
\* severity, the fields are cleared and RunnerError carries the status.
StartLoggingRpcPoll ==
  /\ rpc_pc = "polling"
  /\ LET status == services[call_trace_service]
         call == [LastRpcCall EXCEPT !.observed = Append(@, status),
                                     !.slept = @ + 1]
     IN  IF status # -1
           THEN /\ logged' = DumpCallTraceLog("error")
                /\ call_trace_log_file' = "None"
                /\ call_trace_log_path' = FALSE
                /\ call_trace_service' = 0
                /\ rpc_pc' = "idle"
                /\ rpc_calls' = WithLastRpcCall(
                     [call EXCEPT !.result = "raised", !.error = "exited",
                                  !.status = status])
           ELSE /\ rpc_pc' = IF Len(call.observed) = RpcStartPolls
                               THEN "idle" ELSE "polling"
                /\ rpc_calls' = WithLastRpcCall(
                     [call EXCEPT !.result =
                        IF Len(call.observed) = RpcStartPolls
                          THEN "returned" ELSE "running"])
                /\ UNCHANGED <<logged, call_trace_log_file,
                               call_trace_log_path, call_trace_service>>
  /\ UNCHANGED <<cfg, scriptVars, pc, planVars, plan2Vars, runVars, waitVars, tool_out, services>>

\* A call-trace service process exits, asked to or not, with some status.
CallTraceServiceExits ==
  /\ \E p \in DOMAIN services : \E status \in {0, 1} :
       /\ services[p] = -1
       /\ services' = [services EXCEPT ![p] = status]
  /\ UNCHANGED <<cfg, scriptVars, pc, planVars, plan2Vars, runVars, waitVars, tool_out, call_trace_service,
                 call_trace_log_path, call_trace_log_file, rpc_pc, logged,
                 rpc_calls>>

\* StopLoggingRpc, lines 220-237: the stop command is run and RunnerError
\* raised when it returns non-zero; then wait() is called on
\* self._call_trace_service, an AttributeError when that is None.
StopLoggingRpc ==
  /\ rpc_pc = "idle"
  /\ Len(rpc_calls) < MaxRpcCalls
  /\ \E stop_status \in {0, 1} :
       LET call == RpcCall("StopLoggingRpc", call_trace_service)
       IN  IF stop_status # 0
             THEN /\ rpc_calls' = Append(rpc_calls,
                       [call EXCEPT !.result = "raised",
                                    !.error = "stop command"])
                  /\ rpc_pc' = rpc_pc
             ELSE IF call_trace_service = 0
               THEN /\ rpc_calls' = Append(rpc_calls,
                         [call EXCEPT !.result = "raised",
                                      !.error = "AttributeError"])
                    /\ rpc_pc' = rpc_pc
               ELSE /\ rpc_calls' = Append(rpc_calls, call)
                    /\ rpc_pc' = "waiting"
  /\ UNCHANGED <<cfg, scriptVars, pc, planVars, plan2Vars, runVars, waitVars, tool_out, call_trace_service,
                 call_trace_log_path, call_trace_log_file, services, logged>>

\* StopLoggingRpc, lines 237-241: wait() returns once the process has
\* exited, the log is dumped at info severity (an AttributeError when the
\* log file is None), the handle is cleared, and RunnerError carries a
\* non-zero exit status.
StopLoggingRpcWait ==
  /\ rpc_pc = "waiting"
  /\ services[call_trace_service] # -1
  /\ LET status == services[call_trace_service]
         call == [LastRpcCall EXCEPT !.waited = TRUE]
     IN  IF call_trace_log_file = "None"
           THEN /\ rpc_calls' = WithLastRpcCall(
                     [call EXCEPT !.result = "raised",
                                  !.error = "AttributeError"])
                /\ UNCHANGED <<logged, call_trace_log_file,
                               call_trace_log_path, call_trace_service>>
           ELSE /\ logged' = DumpCallTraceLog("info")
                /\ call_trace_log_file' = "None"
                /\ call_trace_log_path' = FALSE
                /\ call_trace_service' = 0
                /\ rpc_calls' = WithLastRpcCall(
                     IF status # 0
                       THEN [call EXCEPT !.result = "raised",
                                         !.error = "exit status",
                                         !.status = status]
                       ELSE [call EXCEPT !.result = "returned"])
  /\ rpc_pc' = "idle"
  /\ UNCHANGED <<cfg, scriptVars, pc, planVars, plan2Vars, runVars, waitVars, tool_out, services>>

----------------------------------------------------------------------------
(* profile.ChromeProfileRunner: a ChromeRunner whose _SetUp starts the     *)
(* call-trace service and whose _TearDown stops it; its per-iteration      *)
(* hooks do nothing. It runs ChromeRunner.Run, so Loop, LaunchChrome,      *)
(* WaitTillChromeRunning and ShutDown are the steps above. The fields of   *)
(* BenchmarkRunner (benchVars) do not exist in it. While StartLoggingRpc   *)
(* or StopLoggingRpc is running, pc stays at the call.                     *)

\* The calls of op made so far.
RpcCallsOf(op) == {k \in DOMAIN rpc_calls : rpc_calls[k].op = op}

\* ChromeRunner.Run, line 264, and ChromeProfileRunner._SetUp, line 46:
\* the base set-up, outside the try statement.
ProfileRun ==
  /\ pc = "new"
  /\ iterations' = cfg.iterations
  /\ \E base_ok \in BOOLEAN :
       /\ trace' = Append(trace, Ev("SetUpBase", i, base_ok))
       /\ exc' = IF base_ok THEN exc ELSE "SetUp"
       /\ pc' = IF base_ok THEN "setup_rpc" ELSE "done"
  /\ UNCHANGED <<cfg, scriptVars, planVars, plan2Vars, benchVars, rpcVars, waitVars,
                 tool_out, i, chrome>>

\* ChromeProfileRunner._SetUp, line 47: the call of StartLoggingRpc.
ProfileStartLoggingRpc ==
  /\ pc = "setup_rpc"
  /\ RpcCallsOf("StartLoggingRpc") = {}
  /\ StartLoggingRpc

\* ProfileSetUpReturns with _SetUp called inside the try statement: a
\* failed start reaches the finally clause.
MutProfileSetUpReturns ==
  /\ pc = "setup_rpc"
  /\ rpc_pc = "idle"
  /\ RpcCallsOf("StartLoggingRpc") # {}
  /\ LET started == LastRpcCall.result = "returned"
     IN  /\ trace' = Append(trace, Ev("StartLoggingRpc", i, started))
         /\ exc' = IF started THEN exc ELSE "StartLoggingRpc"
         /\ pc' = IF started THEN "loop" ELSE "finally"
  /\ UNCHANGED <<cfg, scriptVars, planVars, plan2Vars, benchVars, rpcVars, waitVars,
                 tool_out, iterations, i, chrome>>

\* StartLoggingRpc has returned or raised: _SetUp returns and Run enters
\* its try statement, or the error leaves Run, which has no handler around
\* _SetUp.
ProfileSetUpReturns ==
  /\ pc = "setup_rpc"
  /\ rpc_pc = "idle"
  /\ RpcCallsOf("StartLoggingRpc") # {}
  /\ LET started == LastRpcCall.result = "returned"
     IN  /\ trace' = Append(trace, Ev("StartLoggingRpc", i, started))
         /\ exc' = IF started THEN exc ELSE "StartLoggingRpc"
         /\ pc' = IF started THEN "loop" ELSE "done"
  /\ UNCHANGED <<cfg, scriptVars, planVars, plan2Vars, benchVars, rpcVars, waitVars,
                 tool_out, iterations, i, chrome>>

\* ChromeProfileRunner._PreIteration: pass.
ProfilePreIteration ==
  /\ pc = "pre"
  /\ trace' = Append(trace, Ev("PreIteration", i, TRUE))
  /\ pc' = "launch"
  /\ UNCHANGED <<cfg, scriptVars, planVars, plan2Vars, benchVars, rpcVars, waitVars,
                 tool_out, iterations, i, exc, chrome>>

\* ChromeProfileRunner._DoIteration: Chrome is given ten seconds.
ProfileDoIteration ==
  /\ pc = "do"
  /\ trace' = Append(trace, Ev("DoIteration", i, TRUE))
  /\ pc' = "finally_shutdown"
  /\ UNCHANGED <<cfg, scriptVars, planVars, plan2Vars, benchVars, rpcVars, waitVars,
                 tool_out, iterations, i, exc, chrome>>

\* ChromeProfileRunner._PostIteration(i, True): pass.
ProfilePostIteration ==
  /\ pc = "post"
  /\ trace' = Append(trace, Ev("PostIteration", i, TRUE))
  /\ pc' = "loop"
  /\ UNCHANGED <<cfg, scriptVars, planVars, plan2Vars, benchVars, rpcVars, waitVars,
                 tool_out, iterations, i, exc, chrome>>

\* ChromeProfileRunner._ProcessResults: the trace files are listed.
ProfileProcessResults ==
  /\ pc = "results"
  /\ trace' = Append(trace, Ev("ProcessResults", i, TRUE))
  /\ pc' = "finally"
  /\ UNCHANGED <<cfg, scriptVars, planVars, plan2Vars, benchVars, rpcVars, waitVars,
                 tool_out, iterations, i, exc, chrome>>

\* The except clause of Run: _PostIteration(i, False) does nothing, and
\* the error is raised again.
ProfileExcept ==
  /\ pc = "except"
  /\ trace' = Append(trace, Ev("PostIteration", i, FALSE))
  /\ pc' = "finally"
  /\ UNCHANGED <<cfg, scriptVars, planVars, plan2Vars, benchVars, rpcVars, waitVars,
                 tool_out, iterations, i, exc, chrome>>

\* The finally clause of Run enters ChromeProfileRunner._TearDown.
ProfileTearDown ==
  /\ pc = "finally"
  /\ trace' = Append(trace, Ev("TearDown", i, TRUE))
  /\ pc' = "teardown_rpc"
  /\ UNCHANGED <<cfg, scriptVars, planVars, plan2Vars, benchVars, rpcVars, waitVars,
                 tool_out, iterations, i, exc, chrome>>

\* ChromeProfileRunner._TearDown, line 50: the call of StopLoggingRpc.
ProfileStopLoggingRpc ==
  /\ pc = "teardown_rpc"
  /\ RpcCallsOf("StopLoggingRpc") = {}
  /\ StopLoggingRpc

\* StopLoggingRpc has returned, and the base tear-down of line 51 runs, or
\* it has raised, and its error leaves _TearDown and Run.
ProfileTearDownReturns ==
  /\ pc = "teardown_rpc"
  /\ rpc_pc = "idle"
  /\ RpcCallsOf("StopLoggingRpc") # {}
  /\ LET stopped == LastRpcCall.result = "returned"
     IN  /\ trace' = trace
              \o <<Ev("StopLoggingRpc", i, stopped)>>
              \o Opt(stopped, Ev("BaseTearDown", i, TRUE))
         /\ exc' = IF stopped THEN exc ELSE "StopLoggingRpc"
  /\ pc' = "done"
  /\ UNCHANGED <<cfg, scriptVars, planVars, plan2Vars, benchVars, rpcVars, waitVars,
                 tool_out, iterations, i, chrome>>

----------------------------------------------------------------------------
(* The decoders alone: each is handed what its tool produced, drawn from   *)
(* the sets below, and feeds the sink; tool_out keeps what it was handed.  *)

\* The sequences over S of at most n elements.
SeqsUpTo(S, n) == UNION {[1..m -> S] : m \in 0..n}

\* The counts of LogEventCounter: up to MaxEvents message loop begin times
\* and process launch times, no or one module with hard faults.
LogCounters ==
  {[message_loop_begin |-> begins, process_launch |-> launches,
    hardfaults |-> hard, softfaults |-> LogCounter.softfaults] :
     begins \in SeqsUpTo({4, 5}, MaxEvents),
     launches \in SeqsUpTo({1, 3}, MaxEvents),
     hard \in {<<>>, LogCounter.hardfaults}}

\* The results of ibmperf.Query: for each counter of a group a count for
\* each of up to MaxPids subjects, the subjects being the same for every
\* counter.
QueryResults ==
  UNION {[metrics -> [1..n -> {10, 20}]] :
           metrics \in {{"CYCLES"}, {"CYCLES", "A"}, {"CYCLES", "A", "B"}},
           n \in 0..MaxPids}

\* The (total_ws, chrome_ws) records of one process: six values each.
WsRecords ==
  {<< <<total, 5, 4, 3, 2, 1>>, <<dll, 5, 4, 3, 2, exe>> >> :
     total \in {10, 20}, dll \in {1, 2}, exe \in {1, 2}}

\* The snapshots of up to MaxProcesses processes, in wsdump's order.
WsDumps == SeqsUpTo(WsRecords, MaxProcesses)

\* One call of _ProcessLogs on the counts of an iteration's logs.
ProcessLogsCall ==
  /\ tool_out.kind = "none"
  /\ \E counter \in LogCounters :
       /\ tool_out' = [kind |-> "logs", value |-> counter]
       /\ results' = ProcessLogs(results, counter)
       /\ added' = added \o Tagged(LogAdds(counter), 0)
  /\ UNCHANGED <<cfg, scriptVars, pc, planVars, plan2Vars, rpcVars, waitVars, iterations,
                 i, exc, env_preload, entry_preload, old_preload, temp_dir,
                 temp_exists, etw_logging, perf_running, perf_group, chrome,
                 trace, report, sampled>>

\* One call of _ProcessIbmPerfResults on a query result.
ProcessIbmPerfResultsCall ==
  /\ tool_out.kind = "none"
  /\ \E query \in QueryResults :
       /\ tool_out' = [kind |-> "perf", value |-> query]
       /\ results' = ProcessIbmPerfResults(results, query)
       /\ added' = added \o Tagged(IbmPerfAdds(query), 0)
  /\ UNCHANGED <<cfg, scriptVars, pc, planVars, plan2Vars, rpcVars, waitVars, iterations,
                 i, exc, env_preload, entry_preload, old_preload, temp_dir,
                 temp_exists, etw_logging, perf_running, perf_group, chrome,
                 trace, report, sampled>>

\* One call of _CaptureWorkingSetMetrics on a snapshot wsdump returned.
CaptureWorkingSetMetricsCall ==
  /\ tool_out.kind = "none"
  /\ \E pairs \in WsDumps :
       /\ tool_out' = [kind |-> "ws", value |-> pairs]
       /\ results' = CaptureWorkingSetMetrics(results, pairs)
       /\ added' = added \o Tagged(WorkingSetAdds(pairs), 0)
  /\ UNCHANGED <<cfg, scriptVars, pc, planVars, plan2Vars, rpcVars, waitVars, iterations,
                 i, exc, env_preload, entry_preload, old_preload, temp_dir,
                 temp_exists, etw_logging, perf_running, perf_group, chrome,
                 trace, report, sampled>>

----------------------------------------------------------------------------
(* ChromeRunner._WaitTillChromeRunning, pass by pass. wait_observed keeps  *)
(* for every pass what chrome_control.IsProfileRunning returned and        *)
(* whether the launched process had exited.                                *)

\* WaitPolls with one pass less.
MutWaitPolls == 5 * 60 - 1

\* xrange(5 * 60) of line 381: the number of passes of the loop.
WaitPolls == 5 * 60

\* _WaitTillChromeRunning(process) is called with the launched process.
WaitEnter ==
  /\ wait_pc = "idle"
  /\ wait_pc' = "polling"
  /\ UNCHANGED <<cfg, scriptVars, pc, planVars, plan2Vars, runVars, rpcVars, tool_out,
                 wait_i, wait_exited, wait_observed, wait_clock>>

\* One pass of the loop, lines 381-390: the function returns when the
\* profile is running; else it raises when process.poll() finds the
\* process exited; else it sleeps a second. After the last pass it raises
\* the timeout (line 392). The process may exit before any pass.
WaitPoll ==
  /\ wait_pc = "polling"
  /\ wait_i < WaitPolls
  /\ \E running \in BOOLEAN, exits \in BOOLEAN :
       LET exited == wait_exited \/ exits
       IN  /\ wait_exited' = exited
           /\ wait_i' = wait_i + 1
           /\ wait_observed' = Append(wait_observed,
                [running |-> running, exited |-> exited])
           /\ wait_clock' = IF running \/ exited THEN wait_clock
                                                 ELSE wait_clock + 1
           /\ wait_pc' = CASE running -> "returned"
                           [] ~running /\ exited -> "terminated early"
                           [] OTHER -> IF wait_i + 1 = WaitPolls
                                         THEN "timeout" ELSE "polling"
  /\ UNCHANGED <<cfg, scriptVars, pc, planVars, plan2Vars, runVars, rpcVars, tool_out>>

----------------------------------------------------------------------------
(* generate_traces._MainGenerateTraces: the call-trace service is started, *)
(* the instrumented DLL is loaded in a new process four times, the service *)
(* is stopped and waited for, and the trace files are moved and counted.   *)
(* gen.loads keeps the result of each load, gen.result the status of the   *)
(* stop command, gen.returncode the exit status of the service, gen.count  *)
(* the files found, gen.ret the value returned; -1 where there is none.    *)

\* _TRACE_FILE_COUNT.
TRACE_FILE_COUNT == 4

\* The most trace files the service leaves behind.
MaxTraceFiles == 5

\* everything other than the service and the run environment
genOther == <<cfg, pc, planVars, plan2Vars, runVars, rpcVars, waitVars,
              tool_out, suite>>

\* Lines 192-233: the directories are prepared and the service is
\* launched with subprocess.Popen.
StartService ==
  /\ gen.pc = "idle"
  /\ \E verbose \in BOOLEAN :
       gen' = [gen EXCEPT !.pc = "loading", !.verbose = verbose,
                          !.service = "running"]
  /\ UNCHANGED genOther

\* LoadInstrumentedDllInNewProc with the flag set from the last load alone.
MutLoadInstrumentedDllInNewProc ==
  /\ gen.pc = "loading"
  /\ \E loaded \in BOOLEAN :
       gen' = [gen EXCEPT
                 !.loads = Append(@, loaded),
                 !.load_dll_failed = ~loaded,
                 !.pc = IF Len(gen.loads) + 1 = TRACE_FILE_COUNT
                          THEN "stopping" ELSE "loading"]
  /\ UNCHANGED genOther

\* One pass of the loop of lines 238-242: the DLL is loaded in a new
\* process; a failed load sets load_dll_failed and the loop goes on.
LoadInstrumentedDllInNewProc ==
  /\ gen.pc = "loading"
  /\ \E loaded \in BOOLEAN :
       gen' = [gen EXCEPT
                 !.loads = Append(@, loaded),
                 !.load_dll_failed = @ \/ ~loaded,
                 !.pc = IF Len(gen.loads) + 1 = TRACE_FILE_COUNT
                          THEN "stopping" ELSE "loading"]
  /\ UNCHANGED genOther

\* Lines 244-252: the stop command is run; a non-zero result returns 1.
StopService ==
  /\ gen.pc = "stopping"
  /\ \E result \in {0, 1} :
       gen' = [gen EXCEPT !.result = result,
                          !.pc = IF result # 0 THEN "done" ELSE "waiting",
                          !.ret = IF result # 0 THEN 1 ELSE @]
  /\ UNCHANGED genOther

\* Lines 254-265: communicate() waits for the service to exit; a non-zero
\* exit status returns 1, and so does a failed load.
WaitService ==
  /\ gen.pc = "waiting"
  /\ \E returncode \in {0, 1} :
       LET failed == returncode # 0 \/ gen.load_dll_failed
       IN  gen' = [gen EXCEPT !.returncode = returncode,
                              !.service = "exited",
                              !.pc = IF failed THEN "done" ELSE "moving",
                              !.ret = IF failed THEN 1 ELSE @]
  /\ UNCHANGED genOther

\* Lines 267-282: the trace files found are moved and counted; any count
\* other than _TRACE_FILE_COUNT returns 1.
MoveTraceFiles ==
  /\ gen.pc = "moving"
  /\ \E count \in 0..MaxTraceFiles :
       gen' = [gen EXCEPT !.count = count,
                          !.pc = "done",
                          !.ret = IF count # TRACE_FILE_COUNT THEN 1 ELSE 0]
  /\ UNCHANGED genOther

----------------------------------------------------------------------------
(* testing.Test.Run and testing.TestSuite._Run. A contained test is        *)
(* described by how its hooks behave; suite.runs keeps, for each call of   *)
(* Run on a contained test, what it returned and whether it wrote its      *)
(* success file.                                                           *)

\* The most tests a suite contains.
MaxTests == 2

\* How a contained test behaves: _CanRun returns False; _NeedToRun returns
\* False and _Run, if forced, returns True; _Run returns True; _Run returns
\* False; a hook raises TestFailure; a hook raises another exception.
TestKinds ==
  {"cannot run", "up to date", "passes", "fails", "raises TestFailure",
   "raises error"}

\* everything other than the suite
suiteOther == <<cfg, pc, planVars, plan2Vars, runVars, rpcVars, waitVars,
                tool_out, gen>>

\* Test.Run(configuration, force), lines 196-259: what it returns ("None"
\* for the bare return of line 223, "raised" when an exception other than
\* TestFailure leaves it), whether _Run was called (a test that needs no
\* run is run when forced), and whether _MakeSuccessFile was called.
TestRun(kind, force) ==
  CASE kind = "cannot run" ->
         [ret |-> "None", ran |-> FALSE, file |-> FALSE]
    [] kind = "up to date" ->
         [ret |-> "True", ran |-> force, file |-> TRUE]
    [] kind = "passes" ->
         [ret |-> "True", ran |-> TRUE, file |-> TRUE]
    [] kind = "fails" ->
         [ret |-> "False", ran |-> TRUE, file |-> FALSE]
    [] kind = "raises TestFailure" ->
         [ret |-> "False", ran |-> TRUE, file |-> FALSE]
    [] OTHER ->
         [ret |-> "raised", ran |-> TRUE, file |-> FALSE]

\* not value, for what Test.Run returns.
Not(value) == value \in {"False", "None"}

\* TestSuite._Run is entered: success = True, line 467.
TestSuiteRunEnter ==
  /\ suite.pc = "idle"
  /\ \E tests \in SeqsUpTo(TestKinds, MaxTests), force \in BOOLEAN :
       suite' = [suite EXCEPT !.pc = "running", !.tests = tests,
                              !.force = force, !.success = TRUE]
  /\ UNCHANGED suiteOther

\* TestSuiteRunTest with success assigned from the last test alone.
MutTestSuiteRunTest ==
  /\ suite.pc = "running"
  /\ Len(suite.runs) < Len(suite.tests)
  /\ LET k == Len(suite.runs) + 1
         run == TestRun(suite.tests[k], suite.force)
     IN  suite' = [suite EXCEPT
                     !.runs = Append(@, [test |-> k, ret |-> run.ret,
                                         ran |-> run.ran,
                                         file |-> run.file]),
                     !.success = ~Not(run.ret),
                     !.pc = IF run.ret = "raised" THEN "raised" ELSE @,
                     !.ret = IF run.ret = "raised" THEN "raised" ELSE @]
  /\ UNCHANGED suiteOther

\* One pass of the loop of lines 468-474: Run is called on the next test;
\* when it returns a false value success becomes False and the loop goes
\* on; an exception leaves _Run.
TestSuiteRunTest ==
  /\ suite.pc = "running"
  /\ Len(suite.runs) < Len(suite.tests)
  /\ LET k == Len(suite.runs) + 1
         run == TestRun(suite.tests[k], suite.force)
     IN  suite' = [suite EXCEPT
                     !.runs = Append(@, [test |-> k, ret |-> run.ret,
                                         ran |-> run.ran,
                                         file |-> run.file]),
                     !.success = IF Not(run.ret) THEN FALSE ELSE @,
                     !.pc = IF run.ret = "raised" THEN "raised" ELSE @,
                     !.ret = IF run.ret = "raised" THEN "raised" ELSE @]
  /\ UNCHANGED suiteOther

\* The loop is over: return success, line 476.
TestSuiteRunReturn ==
  /\ suite.pc = "running"
  /\ Len(suite.runs) = Len(suite.tests)
  /\ suite' = [suite EXCEPT !.pc = "returned",
                            !.ret = IF suite.success THEN "True" ELSE "False"]
  /\ UNCHANGED suiteOther

----------------------------------------------------------------------------
(* The specifications.                                                     *)

\* One runner with a small catalog: CYCLES (and X) free, A and B non-free.
Init ==
  /\ cfg \in {Config(n, preload, prefetch, keep, run, req, free,
                     {"A", "B"}, max) :
                n \in 0..MaxIterations, preload \in BOOLEAN,
                prefetch \in PrefetchModes, keep \in BOOLEAN,
                run \in BOOLEAN,
                req \in SUBSET {"A", "B"} \cup {{"CYCLES"}},
                free \in {{"CYCLES"}, {"CYCLES", "X"}},
                max \in 0..MaxCounters}
  /\ (~cfg.ibmperf_run => /\ cfg.ibmperf_metrics = {}
                           /\ cfg.free_metrics = {"CYCLES"}
                           /\ cfg.max_counters = 0)
  /\ Fresh

Next ==
  \/ Construct
  \/ RunEnter
  \/ SetUp
  \/ Loop
  \/ PreIteration
  \/ LaunchChrome
  \/ WaitTillChromeRunning
  \/ DoIteration
  \/ ShutDown
  \/ PostIteration
  \/ ProcessResults
  \/ Except
  \/ TearDown

Spec == Init /\ [][Next]_vars

\* The planner over every catalog and request of the universes.
InitPlan ==
  /\ cfg \in {Config(1, TRUE, ENABLED_, FALSE, TRUE, req, free, nf, max) :
                req \in SUBSET ({"X"} \cup NonFreeUniverse),
                free \in SUBSET FreeUniverse,
                nf \in SUBSET NonFreeUniverse,
                max \in 0..MaxCounters}
  /\ Fresh
  /\ env_preload = FALSE

NextPlan ==
  \/ Construct
  \/ Construct2

SpecPlan == InitPlan /\ [][NextPlan]_vars

\* The Metric Sink alone: a runner without hardware counters whose loop
\* runs no iteration, samples recorded by calls of _AddResult, the report.
InitSink ==
  /\ cfg = Config(0, FALSE, ENABLED_, FALSE, FALSE, {}, {"CYCLES"},
                  {"A", "B"}, 0)
  /\ Fresh

NextSink ==
  \/ Construct
  \/ RunEnter
  \/ SetUp
  \/ Loop
  \/ AddResultCall
  \/ ProcessResults

SpecSink == InitSink /\ [][NextSink]_vars

\* The call-trace service of one ChromeRunner: StartLoggingRpc and
\* StopLoggingRpc called in any order, and the service processes.
InitRpc ==
  /\ cfg = Config(0, FALSE, ENABLED_, FALSE, FALSE, {}, {"CYCLES"},
                  {"A", "B"}, 0)
  /\ Fresh
  /\ env_preload = FALSE

NextRpc ==
  \/ StartLoggingRpc
  \/ StartLoggingRpcPoll
  \/ CallTraceServiceExits
  \/ StopLoggingRpc
  \/ StopLoggingRpcWait

SpecRpc == InitRpc /\ [][NextRpc]_vars

\* One call of _WaitTillChromeRunning.
InitWait ==
  /\ cfg = Config(0, FALSE, ENABLED_, FALSE, FALSE, {}, {"CYCLES"},
                  {"A", "B"}, 0)
  /\ Fresh
  /\ env_preload = FALSE

NextWait ==
  \/ WaitEnter
  \/ WaitPoll

SpecWait == InitWait /\ [][NextWait]_vars

\* The decoders that feed the sink, each called once on any of its inputs.
InitFeed ==
  /\ cfg = Config(0, FALSE, ENABLED_, FALSE, FALSE, {}, {"CYCLES"},
                  {"A", "B"}, 0)
  /\ Fresh
  /\ env_preload = FALSE

NextFeed ==
  \/ ProcessLogsCall
  \/ ProcessIbmPerfResultsCall
  \/ CaptureWorkingSetMetricsCall

SpecFeed == InitFeed /\ [][NextFeed]_vars

\* One ChromeProfileRunner and the call-trace service processes.
InitProfile ==
  /\ cfg \in {Config(n, FALSE, ENABLED_, FALSE, FALSE, {}, {"CYCLES"},
                       {"A", "B"}, 0) : n \in 0..MaxIterations}
  /\ Fresh
  /\ env_preload = FALSE

NextProfile ==
  \/ ProfileRun
  \/ ProfileStartLoggingRpc
  \/ StartLoggingRpcPoll
  \/ CallTraceServiceExits
  \/ ProfileSetUpReturns
  \/ Loop
  \/ ProfilePreIteration
  \/ LaunchChrome
  \/ WaitTillChromeRunning
  \/ ProfileDoIteration
  \/ ShutDown
  \/ ProfilePostIteration
  \/ ProfileProcessResults
  \/ ProfileExcept
  \/ ProfileTearDown
  \/ ProfileStopLoggingRpc
  \/ StopLoggingRpcWait
  \/ ProfileTearDownReturns

SpecProfile == InitProfile /\ [][NextProfile]_vars

\* One run of generate_traces without --load-dll.
InitTraces ==
  /\ cfg = Config(0, FALSE, ENABLED_, FALSE, FALSE, {}, {"CYCLES"},
                  {"A", "B"}, 0)
  /\ Fresh
  /\ env_preload = FALSE

NextTraces ==
  \/ StartService
  \/ LoadInstrumentedDllInNewProc
  \/ StopService
  \/ WaitService
  \/ MoveTraceFiles

SpecTraces == InitTraces /\ [][NextTraces]_vars

\* One call of TestSuite._Run on a suite of up to MaxTests tests.
InitSuite ==
  /\ cfg = Config(0, FALSE, ENABLED_, FALSE, FALSE, {}, {"CYCLES"},
                  {"A", "B"}, 0)
  /\ Fresh
  /\ env_preload = FALSE

NextSuite ==
  \/ TestSuiteRunEnter
  \/ TestSuiteRunTest
  \/ TestSuiteRunReturn

SpecSuite == InitSuite /\ [][NextSuite]_vars

----------------------------------------------------------------------------
(* Vocabulary of the properties.                                           *)

\* The positions of trace at which op was called in iteration it.
Calls(op, it) ==
  {k \in DOMAIN trace : trace[k].op = op /\ trace[k].it = it}

\* The positions at which that call ended as ok says.
Ended(op, it, ok) == {k \in DOMAIN trace : trace[k] = Ev(op, it, ok)}

\* The iterations that were started.
Started == {trace[k].it : k \in DOMAIN trace} \ {-1}

\* Control has left _RunOneIteration(it).
LeftRunOneIteration(it) ==
  \/ i > it
  \/ i = it /\ pc \in {"post", "except", "loop", "results", "finally", "done"}

\* The steps of an iteration that can fail: in the pre-iteration hook, the
\* launch, the wait, the workload, and in the post-iteration hook.
IterationSteps ==
  {"StartLoggingEtw", "LaunchChrome", "WaitTillChromeRunning", "DoIteration",
   "StopLoggingEtw", "ProcessLogs"}

\* The positions of the calls of the cleanup hook _PostIteration(it, False).
Cleanups(it) == Ended("PostIteration", it, FALSE)

\* The positions at which a step of iteration it failed; a failure inside
\* the cleanup hook is a failure of the cleanup, not of a step.
FailedSteps(it) ==
  {k \in DOMAIN trace :
     /\ trace[k].it = it
     /\ trace[k].op \in IterationSteps
     /\ ~trace[k].ok
     /\ \A c \in Cleanups(it) : k < c}

\* Run has ended: it returned, or an error left it.
RunEnded == pc = "done"
RunRaised == pc = "done" /\ exc # "none"
RunReturned == pc = "done" /\ exc = "none"

\* The number of groups a run multiplies by; 1 without hardware counters.
GroupCount == IF ibmperf THEN Len(ibmperf_groups) ELSE 1

----------------------------------------------------------------------------
C2_TeardownWhenWorkloadRaises ==
  \A it \in Started :
    (RunEnded /\ Ended("DoIteration", it, FALSE) # {}) =>
      /\ Cardinality(Calls("ShutDown", it)) = 1
      /\ Cardinality({k \in DOMAIN trace : trace[k].op = "RestorePreload"}) = 1
      /\ env_preload = entry_preload
      /\ RunRaised

C2_Witness ==
  /\ RunEnded
  /\ cfg.preload # entry_preload
  /\ \E it \in Started : it > 0 /\ Ended("DoIteration", it, FALSE) # {}

(* C3. Whenever a step of iteration it fails (pre-iteration hook, launch,  *)
(* wait, workload, post-iteration hook), _PostIteration(it, False) is      *)
(* invoked before the error leaves Run; that invocation stops the counter  *)
(* sampling (when counters are configured) and the logging, and it adds no *)
(* sample to the Metric Sink, decodes no log and deletes no prefetch file. *)
C3_CleanupCalled ==
  \A it \in Started :
    (RunEnded /\ FailedSteps(it) # {}) =>
      /\ Cardinality(Cleanups(it)) = 1
      /\ \A c \in Cleanups(it) :
           /\ ibmperf => c + 1 \in Calls("StopIbmPerf", it)
           /\ (c + (IF ibmperf THEN 2 ELSE 1)) \in Calls("StopLoggingEtw", it)
           /\ \A k \in DOMAIN trace :
                k > c => trace[k].op \notin {"ProcessLogs", "DeletePrefetch",
                                            "Query", "wsdump"}

(* C3, in full: the cleanup hook is called as C3_CleanupCalled says, and  *)
(* the except clause of Run leaves the Metric Sink as it found it.         *)
C3_CleanupOnFailure ==
  /\ []C3_CleanupCalled
  /\ [][pc = "except" => results' = results]_vars

C3_Witness ==
  /\ RunEnded
  /\ ibmperf
  /\ cfg.prefetch = DISABLED
  /\ DOMAIN results # {}
  /\ \E it \in Started : it > 0 /\ FailedSteps(it) # {}

(* C4. The loop is fail-fast: once a step of iteration it has failed, no   *)
(* step of a later iteration is ever executed and iteration it is not      *)
(* started again; the cleanup hook and the run-level TearDown are executed *)
(* before Run raises.                                                      *)
C4_FailFast ==
  \A it \in Started :
    FailedSteps(it) # {} =>
      /\ \A k \in DOMAIN trace : trace[k].it <= it
      /\ i = it
      /\ Cardinality(Calls("PreIteration", it)) = 1
      /\ Cardinality(Calls("LaunchChrome", it)) <= 1
      /\ RunEnded =>
           /\ RunRaised
           /\ \E c \in Cleanups(it) : \E t \in Calls("TearDown", it) : c < t

C4_Witness ==
  /\ RunEnded
  /\ iterations >= 3
  /\ Ended("WaitTillChromeRunning", 0, FALSE) # {}
  /\ exc = "terminated early"

(* C5. A Run of N requested iterations with G planned counter groups (G    *)
(* counted as 1 without hardware counters) in which no step fails executes *)
(* exactly N * max(G, 1) iterations, each with one pre-iteration hook, one *)
(* launch, one workload, one shutdown and one successful post-iteration    *)
(* hook.                                                                   *)
C5_IterationCount ==
  RunReturned =>
    /\ Started = 0..(cfg.iterations * GroupCount - 1)
    /\ \A it \in Started :
         /\ Cardinality(Calls("PreIteration", it)) = 1
         /\ Cardinality(Ended("LaunchChrome", it, TRUE)) = 1
         /\ Cardinality(Ended("DoIteration", it, TRUE)) = 1
         /\ Cardinality(Calls("ShutDown", it)) = 1
         /\ Cardinality(Ended("PostIteration", it, TRUE)) = 1
         /\ Cleanups(it) = {}

C5_Witness ==
  /\ RunReturned
  /\ cfg.iterations = 2
  /\ ibmperf
  /\ Len(ibmperf_groups) = 2

(* C6. As claimed: on every exit from Run after the preload toggle was     *)
(* changed, a failure later in set-up included, the toggle has the value   *)
(* it had when Run was entered.                                            *)
C6_PreloadRestoredOnEveryExit ==
  (RunEnded /\ \E k \in DOMAIN trace : trace[k].op = "SetPreload")
    => env_preload = entry_preload

----------------------------------------------------------------------------
(* Vocabulary of the planner's properties.                                 *)

\* The planner has produced its groups.
Planned == pc = "constructed" /\ ibmperf

\* The non-free part of each group, and what the groups cover together.
NonFreePart(groups, g) == groups[g] \ cfg.free_metrics
Covered(groups) == UNION {NonFreePart(groups, g) : g \in DOMAIN groups}

\* requested={A,B,C}, free={X}, nonFree={A,B,C,D}, maxConcurrent=2.
Scenario ==
  /\ cfg.ibmperf_metrics = {"A", "B", "C"}
  /\ cfg.free_metrics = {"X"}
  /\ cfg.non_free_metrics = {"A", "B", "C", "D"}
  /\ cfg.max_counters = 2

\* The counters of a set in the order the catalog declares them.
InCatalogOrder(set) == SelectSeq(CatalogOrder, LAMBDA m : m \in set)

(* C7. As claimed: for every requested set R, every group contains the     *)
(* free set F, the groups' non-free parts together are R \cap NF, and two  *)
(* distinct groups share no counter outside F.                             *)
C7_GroupsPartitionRequest ==
  Planned =>
    /\ \A g \in DOMAIN ibmperf_groups : cfg.free_metrics \subseteq ibmperf_groups[g]
    /\ Covered(ibmperf_groups) = cfg.ibmperf_metrics \cap cfg.non_free_metrics
    /\ \A g, h \in DOMAIN ibmperf_groups :
         g # h => NonFreePart(ibmperf_groups, g)
                    \cap NonFreePart(ibmperf_groups, h) = {}

(* C7, amended. Every group contains F and two distinct groups share no    *)
(* counter outside F; the groups' non-free parts together are R \cap NF    *)
(* when R is not empty, and all of NF when R is empty.                     *)
C7_GroupsPartitionPlanned ==
  Planned =>
    /\ \A g \in DOMAIN ibmperf_groups : cfg.free_metrics \subseteq ibmperf_groups[g]
    /\ Covered(ibmperf_groups)
         = IF cfg.ibmperf_metrics = {}
             THEN cfg.non_free_metrics
             ELSE cfg.ibmperf_metrics \cap cfg.non_free_metrics
    /\ \A g, h \in DOMAIN ibmperf_groups :
         g # h => NonFreePart(ibmperf_groups, g)
                    \cap NonFreePart(ibmperf_groups, h) = {}

C7_Witness ==
  /\ Planned
  /\ cfg.ibmperf_metrics = {"X", "A", "B", "C"}
  /\ cfg.free_metrics = {"CYCLES"}
  /\ cfg.non_free_metrics = {"A", "B", "C", "D"}
  /\ cfg.max_counters = 2
  /\ Len(ibmperf_groups) = 2

(* C8. As claimed: every group, free counters included, has at most        *)
(* maxConcurrent members, and the scenario yields exactly the three groups *)
(* {A,X}, {B,X}, {C,X}.                                                    *)
C8_GroupSizeAtMostMax ==
  Planned =>
    /\ \A g \in DOMAIN ibmperf_groups :
         Cardinality(ibmperf_groups[g]) <= cfg.max_counters
    /\ Scenario =>
         /\ Len(ibmperf_groups) = 3
         /\ {ibmperf_groups[g] : g \in DOMAIN ibmperf_groups}
              = {{"A", "X"}, {"B", "X"}, {"C", "X"}}

(* C8, amended. Every group has at most maxConcurrent non-free members and *)
(* so at most maxConcurrent + |free| members in all: the non-free counters *)
(* are chunked with chunk size maxConcurrent, every chunk but the last     *)
(* being full. The scenario yields exactly two groups, the first of two    *)
(* non-free counters and X, the second of the remaining counter and X.     *)
C8_GroupSizeAtMostMaxPlusFree ==
  Planned =>
    /\ \A g \in DOMAIN ibmperf_groups :
         /\ Cardinality(NonFreePart(ibmperf_groups, g)) <= cfg.max_counters
         /\ Cardinality(ibmperf_groups[g])
              <= cfg.max_counters + Cardinality(cfg.free_metrics)
         /\ g < Len(ibmperf_groups) =>
              Cardinality(NonFreePart(ibmperf_groups, g)) = cfg.max_counters
    /\ Scenario =>
         /\ Len(ibmperf_groups) = 2
         /\ Cardinality(ibmperf_groups[1]) = 3
         /\ Cardinality(ibmperf_groups[2]) = 2
         /\ ibmperf_groups[1] \cup ibmperf_groups[2] = {"A", "B", "C", "X"}

C8_Witness == Planned /\ Scenario

(* C9. As claimed: two planner invocations with the same request, catalog  *)
(* and limit produce the identical ordered list of groups, chunked in the  *)
(* order the catalog declares the counters.                                *)
C9_SameGroupsInCatalogOrder ==
  (Planned /\ pc2 = "constructed") =>
    /\ ibmperf_groups = ibmperf_groups2
    /\ ibmperf_groups = Groups(InCatalogOrder(NonFreeRequested(cfg)), cfg)

(* C9, amended. Each invocation chunks the list of the set                 *)
(* metrics \cap non_free_metrics, taken in the set's iteration order and   *)
(* not in the catalog's: group g holds the counters at positions           *)
(* (g-1)*max+1 .. g*max of that list, and the free counters. Two           *)
(* invocations with the same inputs produce the same number of groups      *)
(* covering the same counters, and the identical list of groups when the   *)
(* set iterates in the same order.                                         *)
C9_GroupsFollowIterationOrder ==
  (Planned /\ pc2 = "constructed") =>
    /\ Len(ibmperf_groups) = Len(ibmperf_groups2)
    /\ Covered(ibmperf_groups) = Covered(ibmperf_groups2)
    /\ nonfree = nonfree2 => ibmperf_groups = ibmperf_groups2
    /\ \A g \in DOMAIN ibmperf_groups :
         /\ NonFreePart(ibmperf_groups, g)
              = {nonfree[k] : k \in {k \in DOMAIN nonfree :
                   (g - 1) * cfg.max_counters < k /\ k <= g * cfg.max_counters}}
         /\ NonFreePart(ibmperf_groups2, g)
              = {nonfree2[k] : k \in {k \in DOMAIN nonfree2 :
                   (g - 1) * cfg.max_counters < k /\ k <= g * cfg.max_counters}}

C9_Witness ==
  /\ Planned
  /\ pc2 = "constructed"
  /\ Len(ibmperf_groups) = 2
  /\ cfg.ibmperf_metrics = {"A", "B", "C"}
  /\ nonfree # nonfree2
  /\ nonfree # InCatalogOrder(NonFreeRequested(cfg))
  /\ ibmperf_groups # ibmperf_groups2

(* C10. As claimed: when maxConcurrent is smaller than the number of free  *)
(* counters the planner reports a configuration error before any           *)
(* iteration starts: the runner never gets past its constructor.           *)
C10_ConfigurationErrorReported ==
  (cfg.ibmperf_run /\ cfg.max_counters < Cardinality(cfg.free_metrics))
    => (pc \in {"new", "ctor_raised"} /\ trace = <<>>)

(* C10, amended. The planner does not compare maxConcurrent with the       *)
(* number of free counters. It fails only when maxConcurrent is 0 and at   *)
(* least one non-free counter is planned (the request's, or the whole      *)
(* catalog's for an empty request), and then in the constructor, before    *)
(* any hook, launch or service start; in every other case, maxConcurrent   *)
(* smaller than the number of free counters included, construction         *)
(* succeeds and Run can execute its iterations.                            *)
C10_PlannerFailsOnlyOnZeroStep ==
  /\ pc # "new" =>
       (pc = "ctor_raised" <=>
          /\ cfg.ibmperf_run
          /\ cfg.max_counters = 0
          /\ (IF cfg.ibmperf_metrics = {} THEN cfg.non_free_metrics
                ELSE cfg.ibmperf_metrics \cap cfg.non_free_metrics) # {})
  /\ pc \in {"new", "ctor_raised"} =>
       /\ trace = <<>>
       /\ ~etw_logging
       /\ ~perf_running
       /\ chrome = "stopped"

C10_Witness ==
  /\ RunReturned
  /\ cfg.ibmperf_run
  /\ cfg.max_counters = 1
  /\ cfg.max_counters < Cardinality(cfg.free_metrics)
  /\ Len(ibmperf_groups) = 2
  /\ Ended("PostIteration", 1, TRUE) # {}

----------------------------------------------------------------------------
(* Vocabulary of the prefetch properties.                                  *)

\* The positions of trace at which the prefetch files were deleted.
AllDeletes == {k \in DOMAIN trace : trace[k].op = "DeletePrefetch"}

\* No step of any iteration has failed.
NoStepFailed == \A it \in Started : FailedSteps(it) = {}

\* The loop of Run has executed all its iterations without a failure.
AllIterationsDone ==
  /\ pc \in {"results", "except", "finally", "done"}
  /\ NoStepFailed
  /\ Started = 0..(iterations - 1)

\* Iteration it is over: a later one has begun, or Run has ended.
IterationOver(it) == i > it \/ RunEnded

(* C11. In a Run of K executed iterations in which no step fails, policy   *)
(* DISABLED deletes the prefetch files exactly 2*K times: in each          *)
(* iteration once before the target is launched and once after the         *)
(* iteration's logs were processed.                                        *)
C11_DisabledDeletesTwicePerIteration ==
  (AllIterationsDone /\ cfg.prefetch = DISABLED) =>
    /\ Cardinality(AllDeletes) = 2 * Cardinality(Started)
    /\ \A it \in Started :
         \E a, b \in Calls("DeletePrefetch", it) :
           /\ Calls("DeletePrefetch", it) = {a, b}
           /\ a < b
           /\ \A l \in Calls("LaunchChrome", it) : a < l
           /\ Ended("ProcessLogs", it, TRUE) # {}
           /\ \A p \in Ended("ProcessLogs", it, TRUE) : p < b

C11_Witness ==
  /\ RunReturned
  /\ cfg.prefetch = DISABLED
  /\ Cardinality(Started) = 4
  /\ Cardinality(AllDeletes) = 8

C13_ResetDeletesOnlyBeforeFirstLaunch ==
  /\ cfg.prefetch = RESET_PRIOR_TO_FIRST_LAUNCH =>
       /\ Cardinality(AllDeletes) <= 1
       /\ \A k \in AllDeletes :
            /\ trace[k].it = 0
            /\ k > 2
            /\ trace[k - 2] = Ev("PreIteration", 0, TRUE)
            /\ trace[k - 1] = Ev("StartLoggingEtw", 0, TRUE)
            /\ \A l \in Calls("LaunchChrome", 0) : k < l
       /\ Ended("LaunchChrome", 0, TRUE) # {} => Cardinality(AllDeletes) = 1
  /\ cfg.prefetch = ENABLED_ => AllDeletes = {}

C13_Witness ==
  /\ RunReturned
  /\ cfg.prefetch = RESET_PRIOR_TO_FIRST_LAUNCH
  /\ ibmperf
  /\ Len(ibmperf_groups) = 2
  /\ Cardinality(Started) = 4
  /\ Cardinality(AllDeletes) = 1

----------------------------------------------------------------------------
(* Vocabulary of the Metric Sink's properties.                             *)

\* The key of a recorded call of _AddResult.
KeyOf(r) == <<r.add.graph, r.add.name>>

\* The keys recorded so far.
AddedKeys == {KeyOf(added[k]) : k \in DOMAIN added}

\* The recorded calls for one key, in recording order.
AddedFor(key) == SelectSeq(added, LAMBDA r : KeyOf(r) = key)

\* The samples recorded for one key, in recording order.
SamplesOf(key) == [k \in DOMAIN AddedFor(key) |-> AddedFor(key)[k].add.sample]

\* s is an initial part of t.
IsPrefix(s, t) == Len(s) <= Len(t) /\ SubSeq(t, 1, Len(s)) = s

\* The sink holds, for every key recorded, the samples recorded for it in
\* recording order, and the units of the key's first recording.
C14_SinkHoldsAdded ==
  /\ DOMAIN results = AddedKeys
  /\ \A key \in AddedKeys :
       /\ results[key].samples = SamplesOf(key)
       /\ results[key].units = AddedFor(key)[1].add.units

\* No step removes a key, changes its units or changes the samples it
\* holds; a step that is one call of _AddResult appends the sample to the
\* list of its key and leaves the lists of all other keys as they are.
C14_StepAppends ==
  /\ \A key \in DOMAIN results :
       /\ key \in DOMAIN results'
       /\ results'[key].units = results[key].units
       /\ IsPrefix(results[key].samples, results'[key].samples)
  /\ Len(added') = Len(added) + 1 =>
       LET r == added'[Len(added')]
       IN  /\ DOMAIN results' = DOMAIN results \cup {KeyOf(r)}
           /\ results'[KeyOf(r)].samples
                = (IF KeyOf(r) \in DOMAIN results
                     THEN results[KeyOf(r)].samples ELSE <<>>)
                  \o <<r.add.sample>>
           /\ \A key \in DOMAIN results \ {KeyOf(r)} :
                results'[key] = results[key]

(* C14. The Metric Sink is append-only over any sequence of operations:    *)
(* each _AddResult(graph, trace, sample) leaves the samples already held   *)
(* for (graph, trace) as a prefix and appends exactly one sample, leaves   *)
(* the lists of all other keys unchanged, and no operation removes a key   *)
(* or shortens a list.                                                     *)
C14_AppendOnly == []C14_SinkHoldsAdded /\ [][C14_StepAppends]_vars

C14_Witness ==
  /\ Len(added) = 3
  /\ Cardinality(DOMAIN results) = 2
  /\ \E key \in DOMAIN results :
       /\ results[key].samples = <<2, 1>>
       /\ added[1].add.units # added[3].add.units
       /\ KeyOf(added[1]) = key
       /\ KeyOf(added[3]) = key

\* The keys of the sink specification in ascending order: "Chrome" is
\* an initial part of "ChromeFrame", and "I" precedes "R".
SinkKeysInOrder ==
  << <<"Chrome", <<"IbmPerf", "CYCLES", "0">> >>,
     <<"Chrome", <<"RendererLaunchTime", "", "">> >>,
     <<"ChromeFrame", <<"IbmPerf", "CYCLES", "0">> >>,
     <<"ChromeFrame", <<"RendererLaunchTime", "", "">> >> >>

\* The report was printed to its end.
ReportPrinted == pc = "finally" /\ exc = "none"

(* C15. The report has exactly one line for every key of the sink, the     *)
(* lines are in ascending lexicographic order of (graph_name, trace_name)  *)
(* whatever the order in which the keys were first recorded, and each      *)
(* line carries the samples of its key in recording order, and its units.  *)
C15_ReportSortedByKey ==
  ReportPrinted =>
    /\ Len(report) = Cardinality(AddedKeys)
    /\ [k \in DOMAIN report |-> <<report[k].graph, report[k].trace>>]
         = SelectSeq(SinkKeysInOrder, LAMBDA key : key \in AddedKeys)
    /\ \A k \in DOMAIN report :
         /\ report[k].samples = SamplesOf(<<report[k].graph, report[k].trace>>)
         /\ report[k].units
              = AddedFor(<<report[k].graph, report[k].trace>>)[1].add.units

C15_Witness ==
  /\ ReportPrinted
  /\ Len(report) = 3
  /\ KeyOf(added[1]) = SinkKeysInOrder[4]
  /\ KeyOf(added[2]) = SinkKeysInOrder[3]
  /\ KeyOf(added[3]) = SinkKeysInOrder[1]

----------------------------------------------------------------------------
(* Vocabulary of the order in which an iteration feeds the Metric Sink.    *)

\* The kinds of sample: 1 trace-derived timing, 2 page-fault count,
\* 3 hardware-counter sample, 4 working-set sample.
KindOf(r) ==
  CASE r.add.name[1] \in {"MessageLoopStartTime", "RendererLaunchTime"} -> 1
    [] r.add.name[1] \in {"HardPageFaults", "SoftPageFaults"} -> 2
    [] r.add.name[1] = "IbmPerf" -> 3
    [] r.add.name[1] \in {"TotalWs", "ChromeDllWs"} -> 4

\* The place of each kind in the order the code records them: the
\* hardware counters, the working set, the page faults, the timings.
PlaceInCode == <<4, 3, 1, 2>>

\* The positions of added that iteration it recorded.
AddedIn(it) == {k \in DOMAIN added : added[k].it = it}

\* Iteration it completed with a successful post-iteration hook.
Succeeded(it) == Ended("ProcessLogs", it, TRUE) # {}

(* C16. As claimed: in every successful iteration the sink is populated in *)
(* the order trace-derived timings, page-fault samples, hardware-counter   *)
(* samples, working-set samples.                                           *)
C16_TimingsAndFaultsFirst ==
  \A k \in DOMAIN added :
    (/\ k < Len(added)
     /\ added[k].it = added[k + 1].it
     /\ Succeeded(added[k].it))
      => KindOf(added[k]) <= KindOf(added[k + 1])

(* C16, amended. In every successful iteration the sink is populated in    *)
(* the order hardware-counter samples, working-set samples, page-fault     *)
(* samples, trace-derived timings: the first two are recorded by the       *)
(* workload step while the target runs, the last two by the post-iteration *)
(* hook after the target was shut down. All kinds but the hardware         *)
(* counters are recorded in every successful iteration, the hardware       *)
(* counters when they are configured; the samples of an iteration are      *)
(* recorded before those of the next.                                      *)
C16_CountersAndWorkingSetFirst ==
  /\ \A k \in DOMAIN added :
       k < Len(added) =>
         /\ added[k].it <= added[k + 1].it
         /\ added[k].it = added[k + 1].it =>
              PlaceInCode[KindOf(added[k])] <= PlaceInCode[KindOf(added[k + 1])]
  /\ \A it \in Started :
       Succeeded(it) =>
         {KindOf(added[k]) : k \in AddedIn(it)}
           = IF ibmperf THEN {1, 2, 3, 4} ELSE {1, 2, 4}

C16_Witness ==
  /\ RunReturned
  /\ ibmperf
  /\ Succeeded(1)
  /\ {KindOf(added[k]) : k \in AddedIn(1)} = {1, 2, 3, 4}

----------------------------------------------------------------------------
(* Vocabulary of the call-trace service's properties.                      *)

\* The calls of op that have ended, by their positions in rpc_calls.
RpcEnded(op) ==
  {k \in DOMAIN rpc_calls :
     rpc_calls[k].op = op /\ rpc_calls[k].result # "running"}

\* The dumps of the captured log made by call k.
DumpsOf(k) == {d \in DOMAIN logged : logged[d].call = k}

\* Call k is the last call made and it has ended: the fields of the
\* runner are as that call left them.
JustEnded(k) == k = Len(rpc_calls) /\ rpc_pc = "idle"

\* The service process was seen running at every poll of observed.
AllAlive(observed) == \A j \in DOMAIN observed : observed[j] = -1

(* C17. StartLoggingRpc returns normally only if the service process it    *)
(* launched was found alive at each of 5 polls, one second apart. If a     *)
(* poll finds the process exited, the captured log is dumped at error      *)
(* severity, the service handle, the log path and the log file are         *)
(* cleared, and the call raises an error that carries the exit status.     *)
C17_StartNeedsFiveLivePolls ==
  \A k \in DOMAIN rpc_calls :
    LET call == rpc_calls[k]
    IN  call.op = "StartLoggingRpc" =>
          /\ call.slept = Len(call.observed)
          /\ Len(call.observed) <= 5
          /\ call.result = "returned" =>
               /\ Len(call.observed) = 5
               /\ AllAlive(call.observed)
               /\ DumpsOf(k) = {}
               /\ JustEnded(k) => call_trace_service # 0
          /\ call.result = "running" =>
               Len(call.observed) < 5 /\ AllAlive(call.observed)
          /\ (call.result = "raised" /\ call.error = "exited") =>
               /\ Len(call.observed) >= 1
               /\ AllAlive(SubSeq(call.observed, 1, Len(call.observed) - 1))
               /\ call.observed[Len(call.observed)] # -1
               /\ call.status = call.observed[Len(call.observed)]
               /\ Cardinality(DumpsOf(k)) = 1
               /\ \A d \in DumpsOf(k) : logged[d].severity = "error"
               /\ JustEnded(k) =>
                    /\ call_trace_service = 0
                    /\ call_trace_log_path = FALSE
                    /\ call_trace_log_file = "None"
          /\ call.result = "raised" => call.error \in {"exited", "Popen"}

C17_Witness ==
  /\ \E k \in RpcEnded("StartLoggingRpc") :
       /\ rpc_calls[k].result = "returned"
  /\ \E k \in RpcEnded("StartLoggingRpc") :
       /\ rpc_calls[k].error = "exited"
       /\ Len(rpc_calls[k].observed) = 5
       /\ rpc_calls[k].status = 1
       /\ JustEnded(k)

(* C18. As claimed: StopLoggingRpc, called for a service that was started, *)
(* surfaces the captured log on every outcome, also when the stop command  *)
(* returns non-zero, and has waited for the service process to exit before *)
(* it returns or raises.                                                   *)
C18_LogSurfacedOnEveryOutcome ==
  \A k \in RpcEnded("StopLoggingRpc") :
    rpc_calls[k].handle # 0 =>
      /\ DumpsOf(k) # {}
      /\ rpc_calls[k].waited

(* C18, amended. StopLoggingRpc, called for a service that was started:    *)
(* when the stop command returns zero, it waits for the service process to *)
(* exit, dumps the captured log at info severity whatever the exit status, *)
(* clears the handle, and raises an error carrying the status when that is *)
(* non-zero; when the stop command returns non-zero, it raises at once,    *)
(* without waiting for the process and without dumping the log, and the    *)
(* handle, the log path and the log file stay as they were.                *)
C18_LogDumpedUnlessStopCommandFails ==
  \A k \in RpcEnded("StopLoggingRpc") :
    LET call == rpc_calls[k]
    IN  call.handle # 0 =>
          IF call.error = "stop command"
            THEN /\ call.result = "raised"
                 /\ ~call.waited
                 /\ DumpsOf(k) = {}
                 /\ JustEnded(k) =>
                      /\ call_trace_service = call.handle
                      /\ call_trace_log_path
                      /\ call_trace_log_file = "open"
            ELSE /\ call.waited
                 /\ services[call.handle] # -1
                 /\ Cardinality(DumpsOf(k)) = 1
                 /\ \A d \in DumpsOf(k) : logged[d].severity = "info"
                 /\ call.result = "returned" <=> services[call.handle] = 0
                 /\ call.result = "raised" =>
                      /\ call.error = "exit status"
                      /\ call.status = services[call.handle]
                 /\ JustEnded(k) => call_trace_service = 0

C18_Witness ==
  /\ \E k \in RpcEnded("StopLoggingRpc") :
       /\ rpc_calls[k].handle # 0
       /\ rpc_calls[k].error = "stop command"
  /\ \E k \in RpcEnded("StopLoggingRpc") :
       /\ rpc_calls[k].error = "exit status"
       /\ rpc_calls[k].status = 1
       /\ JustEnded(k)

(* C19. As claimed: in a Run, a stop of the per-iteration logging or of    *)
(* the counter sampling is never issued for an iteration in which the      *)
(* corresponding start did not succeed.                                    *)
C19_StopOnlyAfterStart ==
  \A k \in DOMAIN trace :
    /\ trace[k].op = "StopLoggingEtw" =>
         \E j \in Ended("StartLoggingEtw", trace[k].it, TRUE) : j < k
    /\ trace[k].op = "StopIbmPerf" =>
         \E j \in Ended("StartIbmPerf", trace[k].it, TRUE) : j < k

\* The call-trace service processes launched and still running.
RunningServices == {p \in DOMAIN services : services[p] = -1}

(* C20. As claimed, for the call-trace service: at every point of any      *)
(* sequence of calls at most one instance launched by the runner is        *)
(* active, a start being rejected or impossible while an instance started  *)
(* earlier has not been stopped.                                           *)
C20_AtMostOneInstance == Cardinality(RunningServices) <= 1

----------------------------------------------------------------------------
(* Vocabulary of the wait for the target.                                  *)

\* A poll that found the profile not running and the process alive.
FoundNeither(o) == ~o.running /\ ~o.exited

\* All polls but the last found neither.
NeitherBeforeLast ==
  \A k \in 1..(Len(wait_observed) - 1) : FoundNeither(wait_observed[k])

(* C21. _WaitTillChromeRunning polls once a second: after k polls that     *)
(* found neither the profile running nor the process exited it has slept   *)
(* k seconds. It returns normally exactly at the first poll that finds the *)
(* profile running, raises the early termination exactly at the first poll *)
(* that finds the profile not running and the process exited, and raises   *)
(* the timeout exactly after 300 polls (300 seconds) that found neither.   *)
C21_WaitOutcomes ==
  /\ wait_clock = Cardinality({k \in DOMAIN wait_observed :
                                 FoundNeither(wait_observed[k])})
  /\ NeitherBeforeLast
  /\ Len(wait_observed) <= 300
  /\ wait_pc = "polling" =>
       /\ \A k \in DOMAIN wait_observed : FoundNeither(wait_observed[k])
       /\ Len(wait_observed) < 300
  /\ wait_pc = "returned" <=>
       /\ wait_observed # <<>>
       /\ wait_observed[Len(wait_observed)].running
  /\ wait_pc = "terminated early" <=>
       /\ wait_observed # <<>>
       /\ ~wait_observed[Len(wait_observed)].running
       /\ wait_observed[Len(wait_observed)].exited
  /\ wait_pc = "timeout" <=>
       /\ Len(wait_observed) = 300
       /\ wait_clock = 300
       /\ FoundNeither(wait_observed[300])

C21_Witness ==
  /\ wait_pc = "timeout"
  /\ Len(wait_observed) = 300
  /\ wait_clock = 300

----------------------------------------------------------------------------
(* Vocabulary of the sequencing of iterations.                             *)

\* The positions of trace at which a pre-iteration hook begins.
PreHooks == {k \in DOMAIN trace : trace[k].op = "PreIteration"}

\* The post-iteration hook of iteration it has completed before position
\* k: it was entered with success, stopped the logging and processed the
\* logs, and nothing but its prefetch deletion lies between that and k.
PostHookCompletedAt(it, k) ==
  /\ k > 1
  /\ trace[k - 1] \in {Ev("ProcessLogs", it, TRUE),
                       Ev("DeletePrefetch", it, TRUE)}
  /\ \E p \in Ended("PostIteration", it, TRUE) :
       \E l \in Ended("ProcessLogs", it, TRUE) :
         /\ p < l
         /\ l < k
         /\ \A j \in (l + 1)..(k - 1) : trace[j].op = "DeletePrefetch"

\* The calls of the runner are made one iteration after the other.
OneIterationAtATime ==
  \A k \in DOMAIN trace :
    k < Len(trace) =>
      \/ trace[k + 1].it = trace[k].it
      \/ /\ trace[k + 1].it = trace[k].it + 1
         /\ trace[k + 1].op = "PreIteration"

\* The pre-iteration hook of every iteration but the first begins when
\* the post-iteration hook of the iteration before it has completed.
C22_PostBeforeNextPre ==
  /\ OneIterationAtATime
  /\ \A k \in PreHooks :
       /\ Cardinality(Calls("PreIteration", trace[k].it)) = 1
       /\ trace[k].it > 0 => PostHookCompletedAt(trace[k].it - 1, k)

\* A step that changes the sink is the workload or the post-iteration
\* hook of the iteration in progress.
C22_SinkChangedInIteration ==
  results' # results =>
    /\ pc \in {"do", "post"}
    /\ i' = i
    /\ i \in 0..(iterations - 1)

(* C22. Iterations never overlap: the calls of the runner are made one     *)
(* iteration after the other, the pre-iteration hook of iteration i+1      *)
(* begins only when the post-iteration hook of iteration i has stopped the *)
(* services and processed the logs, and the Metric Sink is changed only by *)
(* the workload and the post-iteration hook of the iteration in progress.  *)
C22_IterationsNeverOverlap ==
  []C22_PostBeforeNextPre /\ [][C22_SinkChangedInIteration]_vars

C22_Witness ==
  /\ RunReturned
  /\ Calls("PreIteration", 1) # {}
  /\ Ended("ProcessLogs", 0, TRUE) # {}
  /\ Ended("ProcessLogs", 1, TRUE) # {}

----------------------------------------------------------------------------
\* Once Run has raised, the sink holds every sample recorded and nothing
\* else, the samples of every iteration before the failed one included.
C23_SinkHoldsAllAfterFailure ==
  RunRaised =>
    /\ \A k \in DOMAIN added :
         /\ KeyOf(added[k]) \in DOMAIN results
         /\ \E j \in DOMAIN results[KeyOf(added[k])].samples :
              results[KeyOf(added[k])].samples[j] = added[k].add.sample
    /\ Cardinality(UNION {{<<key, j>> : j \in DOMAIN results[key].samples} :
                            key \in DOMAIN results}) = Len(added)
    /\ \A it \in 0..(i - 1) : \E k \in DOMAIN added : added[k].it = it

\* The failure cleanup and the tear-down leave the sink as it is.
C23_CleanupKeepsSink ==
  pc \in {"except", "finally"} => results' = results

(* C23. When a Run fails, every sample that was in the Metric Sink before  *)
(* the failure is still in it, unchanged, after Run has raised: neither    *)
(* the failure cleanup nor the tear-down changes the sink, so the samples  *)
(* of the iterations before the failed one remain in it.                   *)
C23_SinkSurvivesFailure ==
  []C23_SinkHoldsAllAfterFailure /\ [][C23_CleanupKeepsSink]_vars

C23_Witness ==
  /\ RunRaised
  /\ i = 1
  /\ FailedSteps(1) # {}
  /\ AddedIn(0) # {}
  /\ DOMAIN results = AddedKeys

----------------------------------------------------------------------------
(* Vocabulary of the propagation of errors.                                *)

\* The errors a failing step raises, as exc names them.
ErrorsOf(op) ==
  IF op = "WaitTillChromeRunning" THEN {"terminated early", "timeout"}
                                  ELSE {op}

\* The positions at which a step of an iteration or the report step
\* failed, failures inside the cleanup hook left out.
FailedAt ==
  UNION {FailedSteps(it) : it \in Started}
    \cup {k \in DOMAIN trace : trace[k].op = "ProcessResults" /\ ~trace[k].ok}

\* Whenever a step or the report step failed, Run ends by raising.
FailureLeavesRun == (RunEnded /\ FailedAt # {}) => exc # "none"

(* C24. As claimed: whenever a step of an iteration or the report step     *)
(* failed, Run ends by raising, and the error that leaves Run is the error *)
(* of the failing step.                                                    *)
C24_OriginalErrorLeavesRun ==
  RunEnded =>
    \A k \in FailedAt : exc \in ErrorsOf(trace[k].op)

----------------------------------------------------------------------------
(* Vocabulary of the temporary directory.                                  *)

\* The positions of trace at which op was called, in any iteration.
Ops(op) == {k \in DOMAIN trace : trace[k].op = op}

\* _SetUp has returned: the temporary directory was created.
SetUpReturned == \E k \in Ops("mkdtemp") : trace[k].ok

\* The runner is inside the try statement of Run, before the finally
\* clause has run.
InsideTry ==
  pc \in {"loop", "pre", "launch", "wait", "do", "finally_shutdown", "post",
          "results", "except", "finally"}

(* C25. A Run whose set-up returns creates exactly one temporary directory *)
(* in _SetUp. The directory exists as long as the iterations, the report   *)
(* and the failure cleanup run; _TearDown, which runs after the last       *)
(* post-iteration hook of the run whether Run returns or raises, deletes   *)
(* it if and only if keep_temp_dirs is false.                              *)
C25_TempDirDeletedAtTearDown ==
  /\ Cardinality(Ops("mkdtemp")) <= 1
  /\ InsideTry =>
       /\ SetUpReturned
       /\ temp_dir
       /\ temp_exists
       /\ Ops("rmtree") = {}
  /\ (RunEnded /\ SetUpReturned) =>
       /\ temp_exists = cfg.keep_temp_dirs
       /\ Cardinality(Ops("rmtree")) = IF cfg.keep_temp_dirs THEN 0 ELSE 1
       /\ \A r \in Ops("rmtree") :
            /\ \E t \in Ops("TearDown") : t < r
            /\ \A k \in Ops("PostIteration") \cup Ops("ProcessLogs")
                          \cup Ops("StopLoggingEtw") : k < r

C25_Witness ==
  /\ RunRaised
  /\ ~cfg.keep_temp_dirs
  /\ Ops("rmtree") # {}
  /\ Cleanups(1) # {}
  /\ ~temp_exists

----------------------------------------------------------------------------
(* C26. When hardware counters are gathered, the group list is the one the *)
(* constructor planned for the whole run, iteration it starts the group    *)
(* with index it mod G of that list, every iteration that starts its       *)
(* counters starts them once, and in a Run of N requested iterations that  *)
(* returns, every one of the G groups was started in exactly N iterations. *)
C26_GroupsSampledCyclically ==
  (ibmperf /\ pc # "new") =>
    /\ ibmperf_groups = Groups(nonfree, cfg)
    /\ \A k \in DOMAIN sampled :
         /\ sampled[k].it = k - 1
         /\ sampled[k].metrics
              = ibmperf_groups[(sampled[k].it % Len(ibmperf_groups)) + 1]
    /\ RunReturned =>
         \A g \in DOMAIN ibmperf_groups :
           Cardinality({k \in DOMAIN sampled :
                          sampled[k].metrics = ibmperf_groups[g]})
             = cfg.iterations

C26_Witness ==
  /\ RunReturned
  /\ ibmperf
  /\ Len(ibmperf_groups) = 2
  /\ cfg.iterations = 2
  /\ Len(sampled) = 4
  /\ sampled[1].metrics # sampled[2].metrics
  /\ sampled[3].metrics = sampled[1].metrics

----------------------------------------------------------------------------
(* Vocabulary of the order of the steps of an iteration.                   *)

\* The calls of an iteration in the order claimed, the hooks that make
\* them included; DeletePrefetch is placed by PlaceAt.
StepOrder ==
  <<"PreIteration", "StartLoggingEtw", "DeletePrefetch (before)",
    "StartIbmPerf", "LaunchChrome", "WaitTillChromeRunning", "Query",
    "wsdump", "DoIteration", "ShutDown", "PostIteration", "StopIbmPerf",
    "StopLoggingEtw", "ProcessLogs", "DeletePrefetch (after)">>

\* The place in StepOrder of every name in it.
PlaceOf ==
  [name \in {StepOrder[n] : n \in DOMAIN StepOrder} |->
     CHOOSE n \in DOMAIN StepOrder : StepOrder[n] = name]

\* The place of the call at position k of trace, 0 when it has none. A
\* prefetch deletion is the one before the launch when it follows the
\* start of the logging.
PlaceAt(k) ==
  IF trace[k].op = "DeletePrefetch"
    THEN IF k > 1 /\ trace[k - 1].op = "StartLoggingEtw"
           THEN PlaceOf["DeletePrefetch (before)"]
           ELSE PlaceOf["DeletePrefetch (after)"]
    ELSE IF trace[k].op \in DOMAIN PlaceOf THEN PlaceOf[trace[k].op] ELSE 0

\* Consecutive calls of one iteration are made in the order of StepOrder;
\* the calls of the failure cleanup, which begins with
\* _PostIteration(it, False), come after all of them.
StepsInOrder ==
  \A k \in DOMAIN trace :
    (/\ k < Len(trace)
     /\ trace[k].it >= 0
     /\ trace[k + 1].it = trace[k].it
     /\ PlaceAt(k) # 0
     /\ PlaceAt(k + 1) # 0
     /\ trace[k + 1] # Ev("PostIteration", trace[k].it, FALSE))
      => PlaceAt(k) < PlaceAt(k + 1)

\* The steps of an iteration that succeeded.
StepsOfSuccess ==
  {"StartLoggingEtw", "LaunchChrome", "WaitTillChromeRunning", "wsdump",
   "ShutDown", "StopLoggingEtw", "ProcessLogs"}
    \cup (IF ibmperf THEN {"StartIbmPerf", "Query", "StopIbmPerf"} ELSE {})

\* The calls made so far, as a set.
Events == {trace[k] : k \in DOMAIN trace}

(* C27. In every iteration the steps occur in this order: logging start,   *)
(* prefetch deletion (if warranted), counter sampling start, target        *)
(* launch, readiness, hardware-counter query and working-set snapshot      *)
(* (after the target was found running and before its shutdown), target    *)
(* shutdown, counter sampling stop, logging stop, decoding of the trace    *)
(* logs; none of them is made twice before the failure cleanup, an         *)
(* iteration that succeeds makes each of them, and the target is launched  *)
(* only in an iteration whose logging was started.                         *)
C27_StepsInOrder ==
  /\ StepsInOrder
  /\ pc = "do" => chrome = "running"
  /\ \E evs \in {Events} :
       \A it \in 0..i :
         /\ (\E ok \in BOOLEAN : Ev("LaunchChrome", it, ok) \in evs) =>
              /\ Ev("StartLoggingEtw", it, TRUE) \in evs
              /\ Ev("StartLoggingEtw", it, FALSE) \notin evs
         /\ Ev("ProcessLogs", it, TRUE) \in evs =>
              \A op \in StepsOfSuccess : Ev(op, it, TRUE) \in evs

C27_Witness ==
  /\ RunReturned
  /\ ibmperf
  /\ cfg.prefetch = DISABLED
  /\ Succeeded(1)
  /\ \E a \in Calls("StartIbmPerf", 1), q \in Calls("Query", 1),
        d \in Calls("ShutDown", 1), l \in Calls("ProcessLogs", 1) :
       a < q /\ q < d /\ d < l

----------------------------------------------------------------------------
(* Vocabulary of the decoders' properties.                                 *)

\* The keys of the two trace-derived timings.
LoopStartKey == <<"Chrome", <<"MessageLoopStartTime", "", "">>>>
RendererLaunchKey == <<"Chrome", <<"RendererLaunchTime", "", "">>>>

\* The number of calls of _AddResult recorded for a key.
TimesAdded(key) == Cardinality({k \in DOMAIN added : KeyOf(added[k]) = key})

(* C28. _ProcessLogs returns on every count of events, and records the     *)
(* loop-start latency (first loop begin minus first launch, in seconds)    *)
(* iff at least one loop-begin event and at least one launch event were    *)
(* counted, and the renderer-launch latency (second launch minus first)    *)
(* iff at least two launch events were counted; each is recorded once or   *)
(* not at all.                                                             *)
C28_TimingsOnlyWithEvents ==
  tool_out.kind = "logs" =>
    LET begins == tool_out.value.message_loop_begin
        launches == tool_out.value.process_launch
    IN  /\ LoopStartKey \in DOMAIN results
             <=> (Len(begins) >= 1 /\ Len(launches) >= 1)
        /\ LoopStartKey \in DOMAIN results =>
             results[LoopStartKey]
               = [units |-> "s", samples |-> <<begins[1] - launches[1]>>]
        /\ TimesAdded(LoopStartKey)
             = IF Len(begins) >= 1 /\ Len(launches) >= 1 THEN 1 ELSE 0
        /\ RendererLaunchKey \in DOMAIN results <=> Len(launches) >= 2
        /\ RendererLaunchKey \in DOMAIN results =>
             results[RendererLaunchKey]
               = [units |-> "s", samples |-> <<launches[2] - launches[1]>>]
        /\ TimesAdded(RendererLaunchKey) = IF Len(launches) >= 2 THEN 1 ELSE 0

C28_Witness ==
  /\ tool_out.kind = "logs"
  /\ Len(tool_out.value.message_loop_begin) = 0
  /\ Len(tool_out.value.process_launch) = 2
  /\ LoopStartKey \notin DOMAIN results
  /\ RendererLaunchKey \in DOMAIN results

----------------------------------------------------------------------------
\* The key IbmPerf[metric][rank - 1].
IbmPerfKey(metric, rank) ==
  <<"Chrome", <<"IbmPerf", metric, RankStr(rank - 1)>>>>

\* The one-to-one assignments of the ranks 1..Cardinality(S) to S.
Rankings(S) ==
  {r \in [1..Cardinality(S) -> S] : \A x \in S : \E k \in DOMAIN r : r[k] = x}

(* C29. For every hardware-counter query result there is one ranking of    *)
(* the subjects by descending CYCLES count that is used for every counter  *)
(* of the result: the sink receives exactly one sample per (counter, rank) *)
(* pair, under the key IbmPerf[counter][rank], and it is the count of that *)
(* counter for the subject of that rank.                                   *)
C29_RankedByCycles ==
  tool_out.kind = "perf" =>
    LET query == tool_out.value
        pids == DOMAIN query["CYCLES"]
    IN  \E r \in Rankings(pids) :
          /\ \A j, k \in DOMAIN r :
               j < k => query["CYCLES"][r[j]] >= query["CYCLES"][r[k]]
          /\ DOMAIN results
               = {IbmPerfKey(m, k) : m \in DOMAIN query, k \in DOMAIN r}
          /\ \A m \in DOMAIN query : \A k \in DOMAIN r :
               results[IbmPerfKey(m, k)]
                 = [units |-> "", samples |-> <<query[m][r[k]]>>]
          /\ Len(added) = Cardinality(DOMAIN query) * Cardinality(pids)

C29_Witness ==
  /\ tool_out.kind = "perf"
  /\ DOMAIN tool_out.value = {"CYCLES", "A"}
  /\ tool_out.value["CYCLES"] = <<10, 20>>
  /\ tool_out.value["A"] = <<20, 10>>
  /\ results[IbmPerfKey("CYCLES", 1)].samples = <<20>>
  /\ results[IbmPerfKey("A", 1)].samples = <<10>>
  /\ results[IbmPerfKey("A", 2)].samples = <<20>>

----------------------------------------------------------------------------
\* The keys TotalWs[rank - 1][name] and ChromeDllWs[rank - 1][name].
TotalWsKey(rank, n) ==
  <<"Chrome", <<"TotalWs", RankStr(rank - 1), WS_OUTPUT_NAMES[n]>>>>
ChromeDllWsKey(rank, n) ==
  <<"Chrome", <<"ChromeDllWs", RankStr(rank - 1), WS_OUTPUT_NAMES[n]>>>>

\* The full record: the six Total values, then the six chrome.dll values.
FullRecord(rec) == rec[1] \o rec[2]

\* The snapshot with its records in the order perm gives.
Reordered(pairs, perm) == [k \in DOMAIN pairs |-> pairs[perm[k]]]

(* C30. The records of a working-set snapshot of P processes are ranked in *)
(* ascending order of the full record (the six Total values followed by    *)
(* the six chrome.dll values): each rank 0..P-1 is used exactly once, rank *)
(* k holds the twelve values of the record of that place, and the samples  *)
(* recorded do not depend on the order in which wsdump lists the           *)
(* processes. Of two records with 10 and 20 total pages, the one with 10   *)
(* gets rank 0 and the one with 20 rank 1.                                 *)
C30_RankedByFullRecord ==
  tool_out.kind = "ws" =>
    LET pairs == tool_out.value
    IN  /\ \E r \in Rankings(DOMAIN pairs) :
             /\ \A j, k \in DOMAIN r :
                  j < k => ~LexLess(FullRecord(pairs[r[k]]),
                                    FullRecord(pairs[r[j]]))
             /\ DOMAIN results
                  = {TotalWsKey(k, n) : k \in DOMAIN r, n \in 1..6}
                      \cup {ChromeDllWsKey(k, n) : k \in DOMAIN r, n \in 1..6}
             /\ \A k \in DOMAIN r : \A n \in 1..6 :
                  /\ results[TotalWsKey(k, n)]
                       = [units |-> "", samples |-> <<pairs[r[k]][1][n]>>]
                  /\ results[ChromeDllWsKey(k, n)]
                       = [units |-> "", samples |-> <<pairs[r[k]][2][n]>>]
        /\ Len(added) = 12 * Len(pairs)
        /\ \A perm \in Rankings(DOMAIN pairs) :
             CaptureWorkingSetMetrics(<<>>, Reordered(pairs, perm)) = results

C30_Witness ==
  /\ tool_out.kind = "ws"
  /\ Len(tool_out.value) = 2
  /\ tool_out.value[1][1][1] = 20
  /\ tool_out.value[2][1][1] = 10
  /\ results[TotalWsKey(1, 1)].samples = <<10>>
  /\ results[TotalWsKey(2, 1)].samples = <<20>>

----------------------------------------------------------------------------
(* Vocabulary of the empty and the free-only request.                      *)

\* Every counter some group samples.
Sampled(groups) == UNION {groups[g] : g \in DOMAIN groups}

\* The request the planner works from: what was asked for, or the whole
\* catalog when nothing was asked for.
EffectiveRequest ==
  IF cfg.ibmperf_metrics = {}
    THEN cfg.free_metrics \cup cfg.non_free_metrics
    ELSE cfg.ibmperf_metrics

(* C31. A planner given an empty request plans the whole catalog: its      *)
(* groups together sample exactly free \cup non-free. A planner whose      *)
(* request, the catalog standing in for an empty one, names no non-free    *)
(* counter produces exactly one group, and that group is the free set;     *)
(* such a planner never fails. The second runner built from the same      *)
(* arguments obeys the same.                                               *)
C31_EmptyRequestPlansCatalog ==
  /\ Planned /\ cfg.ibmperf_metrics = {} =>
       Sampled(ibmperf_groups) = cfg.free_metrics \cup cfg.non_free_metrics
  /\ pc2 = "constructed" /\ cfg.ibmperf_metrics = {} =>
       Sampled(ibmperf_groups2) = cfg.free_metrics \cup cfg.non_free_metrics
  /\ cfg.ibmperf_run /\ EffectiveRequest \cap cfg.non_free_metrics = {} =>
       /\ pc # "ctor_raised" /\ pc2 # "ctor_raised"
       /\ pc = "constructed" => ibmperf /\ ibmperf_groups = <<cfg.free_metrics>>
       /\ pc2 = "constructed" => ibmperf_groups2 = <<cfg.free_metrics>>

\* An empty request over a catalog of two free and three non-free counters
\* has been planned in two groups that sample all five.
C31_Witness ==
  /\ Planned
  /\ cfg.ibmperf_metrics = {}
  /\ cfg.free_metrics = {"CYCLES", "X"}
  /\ cfg.non_free_metrics = {"A", "B", "C"}
  /\ cfg.max_counters = 2
  /\ Len(ibmperf_groups) = 2
  /\ Sampled(ibmperf_groups) = {"CYCLES", "X", "A", "B", "C"}

\* A request for the free counter X alone, over a catalog with non-free
\* counters, has been planned as the single group of the free set.
C31_FreeOnlyPlanned ==
  /\ Planned
  /\ cfg.ibmperf_metrics = {"X"}
  /\ cfg.non_free_metrics = {"A", "B"}
  /\ ibmperf_groups = <<cfg.free_metrics>>

----------------------------------------------------------------------------
(* Vocabulary of the report step.                                          *)

\* The positions of the calls of _ProcessResults.
Reports == Ops("ProcessResults")

\* What Run still calls once the report step was entered: the cleanup hook
\* in the except clause, and the tear-down.
AfterReport ==
  {"StopIbmPerf", "StopLoggingEtw", "TearDown", "RestorePreload", "rmtree",
   "BaseTearDown"}

\* A step of some iteration failed: a call of an iteration step ended with
\* an error and was not made by the cleanup hook.
SomeStepFailed ==
  \E k \in DOMAIN trace :
    /\ ~trace[k].ok
    /\ trace[k].op \in IterationSteps
    /\ \A c \in 1..(k - 1) : trace[c] # Ev("PostIteration", trace[k].it, FALSE)

\* The post-iteration hook of iteration it ran to its end before position r.
PostHookDoneBefore(it, r) ==
  /\ \E k \in 1..(r - 1) : trace[k] = Ev("PostIteration", it, TRUE)
  /\ \E k \in 1..(r - 1) : trace[k] = Ev("ProcessLogs", it, TRUE)

(* C32. _ProcessResults is called at most once in a Run. It is never       *)
(* called in a Run in which a step of an iteration failed. In a Run whose  *)
(* iterations all succeeded it has been called exactly once when the try   *)
(* block is left; at that call every requested iteration had run and its   *)
(* post-iteration hook had completed, and everything Run calls later is    *)
(* the cleanup of the except clause (when the report itself failed) or the *)
(* tear-down, which comes after the report.                                *)
C32_ReportOnceAfterLastIteration ==
  \E reports \in {Reports} : \E failed \in {SomeStepFailed} :
    /\ Cardinality(reports) <= 1
    /\ failed => reports = {}
    /\ (pc \in {"except", "finally", "done"} /\ ~failed /\ SetUpReturned)
         => Cardinality(reports) = 1
    /\ \A r \in reports :
         /\ \A it \in 0..(iterations - 1) : PostHookDoneBefore(it, r)
         /\ \A k \in 1..(r - 1) : trace[k].it < iterations
         /\ \A k \in (r + 1)..Len(trace) :
              \/ trace[k].op \in AfterReport
              \/ trace[k] = Ev("PostIteration", i, FALSE)
         /\ \A k \in 1..(r - 1) : trace[k].op # "TearDown"

\* A Run of four iterations (two requested, two groups) has returned after
\* its report was printed.
C32_Witness ==
  /\ RunReturned
  /\ iterations = 4
  /\ Started = 0..3
  /\ Cardinality(Reports) = 1
  /\ Ops("TearDown") # {}

\* A Run whose second iteration failed at the launch has ended without a
\* report.
C32_FailedRunSeen ==
  /\ RunRaised
  /\ FailedSteps(1) # {}
  /\ Reports = {}

----------------------------------------------------------------------------
(* Vocabulary of the pairing of starts and stops.                          *)

\* The per-iteration services with their start and stop calls.
Services ==
  {[start |-> "StartLoggingEtw", stop |-> "StopLoggingEtw"],
   [start |-> "StartIbmPerf", stop |-> "StopIbmPerf"]}

\* The stops issued for a service in iteration it.
StopsOf(svc, it) == Calls(svc.stop, it)

\* Every service started in an iteration has been sent a stop in that
\* iteration, after the start, once Run has ended.
C33_StartedThenStopped ==
  RunEnded =>
    \A svc \in Services : \A it \in Started :
      \A a \in Ended(svc.start, it, TRUE) :
        \E b \in StopsOf(svc, it) : a < b

(* C33. As claimed: in any Run, every successful start of the              *)
(* per-iteration logging and of the counter sampling is followed by        *)
(* exactly one stop of that service before Run ends: never none once Run   *)
(* has ended, and never a second one.                                      *)
C33_ExactlyOneStopPerStart ==
  \A svc \in Services : \A it \in Started :
    Ended(svc.start, it, TRUE) # {} =>
      /\ Cardinality(StopsOf(svc, it)) <= 1
      /\ RunEnded => Cardinality(StopsOf(svc, it)) = 1

\* The post-iteration hook of iteration 0 stopped both services and then
\* failed to process the logs; the cleanup stopped both a second time.
C33_SecondStopSeen ==
  /\ RunEnded
  /\ Ended("ProcessLogs", 0, FALSE) # {}
  /\ Cardinality(StopsOf([start |-> "StartLoggingEtw",
                          stop |-> "StopLoggingEtw"], 0)) = 2
  /\ Cardinality(StopsOf([start |-> "StartIbmPerf",
                          stop |-> "StopIbmPerf"], 0)) = 2

----------------------------------------------------------------------------
(* Vocabulary of the run-long call-trace service of ChromeProfileRunner.   *)

\* The calls of StartLoggingRpc and of StopLoggingRpc the runner made.
RpcStarts == RpcCallsOf("StartLoggingRpc")
RpcStops == RpcCallsOf("StopLoggingRpc")

\* StartLoggingRpc returned without an error.
RpcStarted == \E k \in RpcStarts : rpc_calls[k].result = "returned"

\* The calls Run makes for its iterations and its report.
IterationOps ==
  {"PreIteration", "LaunchChrome", "WaitTillChromeRunning", "DoIteration",
   "ShutDown", "PostIteration", "ProcessResults"}

(* C34. In a Run of ChromeProfileRunner whose base set-up returned,        *)
(* StartLoggingRpc is called exactly once, after the base set-up and       *)
(* before anything of iteration 0; the iterations run only after it        *)
(* succeeded.                                                              *)
(* StopLoggingRpc is called at most once, only from _TearDown, when        *)
(* every call for the iterations and the report has been made, and the     *)
(* base tear-down comes only after it returned. When Run has ended,        *)
(* StopLoggingRpc was called exactly once if StartLoggingRpc succeeded,    *)
(* and not at all if it failed or was never called.                        *)
C34_RpcServiceSpansRun ==
  /\ Cardinality(RpcStarts) <= 1
  /\ Cardinality(RpcStops) <= 1
  /\ (pc \notin {"new", "setup_rpc"} /\ trace[1].ok) =>
       Cardinality(RpcStarts) = 1
  /\ RpcStarts # {} =>
       /\ trace[1] = Ev("SetUpBase", -1, TRUE)
       /\ \A k \in RpcStarts : k = 1
       /\ Len(trace) >= 2 => \E ok \in BOOLEAN :
                                trace[2] = Ev("StartLoggingRpc", -1, ok)
  /\ \A k \in DOMAIN trace :
       trace[k].op \in IterationOps \cup {"TearDown"} =>
         /\ RpcStarted
         /\ k > 2
         /\ trace[2] = Ev("StartLoggingRpc", -1, TRUE)
  /\ RpcStops # {} =>
       /\ RpcStarted
       /\ pc \in {"teardown_rpc", "done"}
       /\ \E t \in Ops("TearDown") :
            /\ \A k \in DOMAIN trace :
                 trace[k].op \in IterationOps => k < t
            /\ \A k \in Ops("StopLoggingRpc") \cup Ops("BaseTearDown") : t < k
  /\ \A b \in Ops("BaseTearDown") :
       /\ trace[b - 1] = Ev("StopLoggingRpc", i, TRUE)
       /\ \E k \in RpcStops : rpc_calls[k].result = "returned"
  /\ RunEnded => Cardinality(RpcStops) = IF RpcStarted THEN 1 ELSE 0

\* A Run of two iterations has returned: the service was started before
\* iteration 0 and stopped after iteration 1, and the base tear-down ran.
C34_Witness ==
  /\ RunReturned
  /\ Started = {0, 1}
  /\ RpcStarted
  /\ Cardinality(RpcStops) = 1
  /\ Ops("BaseTearDown") # {}

\* The service exited while StartLoggingRpc was polling it: Run has ended
\* and StopLoggingRpc was never called.
C34_FailedStartSeen ==
  /\ RunRaised
  /\ \E k \in RpcStarts : rpc_calls[k].error = "exited"
  /\ RpcStops = {}

\* An iteration failed, and the service was stopped all the same.
C34_StoppedAfterFailure ==
  /\ RunRaised
  /\ Ended("PostIteration", 0, FALSE) # {}
  /\ \E k \in RpcStops : rpc_calls[k].result = "returned"

----------------------------------------------------------------------------
(* Vocabulary of the tear-down.                                            *)

\* The calls BenchmarkRunner._TearDown makes, in the order of the code.
TearDownSteps == <<"RestorePreload", "rmtree", "BaseTearDown">>

\* The calls recorded after position t.
After(t) == SubSeq(trace, t + 1, Len(trace))

\* The names of the calls of a sequence of events.
OpsIn(events) == [k \in DOMAIN events |-> events[k].op]

C35_ReturnedSeen ==
  /\ RunReturned
  /\ Started = {0, 1}
  /\ Cardinality(Ops("TearDown")) = 1

\* A Run whose set-up failed has ended without a tear-down.
C35_SetUpFailedSeen ==
  /\ RunRaised
  /\ ~SetUpReturned
  /\ Ops("SetPreload") # {}
  /\ Ops("TearDown") = {}

----------------------------------------------------------------------------
(* Vocabulary of the sample counts of the hardware counters.               *)

\* The number of samples the sink holds under IbmPerf[c][0].
SamplesUnder(c) ==
  IF IbmPerfKey(c, 1) \in DOMAIN results
    THEN Len(results[IbmPerfKey(c, 1)].samples)
    ELSE 0

\* The non-free counters that were asked for by name.
RequestedNonFree == cfg.ibmperf_metrics \cap cfg.non_free_metrics

(* C36. When a Run of N requested iterations with G counter groups has     *)
(* returned, every query having returned one subject with a value for      *)
(* each counter of the active group, the key IbmPerf[c][0] holds exactly   *)
(* N*G samples for each free counter c and exactly N samples for each      *)
(* requested non-free counter c; an empty request counts as a request for  *)
(* every non-free counter of the catalog.                                  *)
C36_SamplesPerCounter ==
  (RunReturned /\ ibmperf) =>
    /\ iterations = cfg.iterations * Len(ibmperf_groups)
    /\ \A c \in cfg.free_metrics :
         SamplesUnder(c) = cfg.iterations * Len(ibmperf_groups)
    /\ \A c \in RequestedNonFree : SamplesUnder(c) = cfg.iterations
    /\ cfg.ibmperf_metrics = {} =>
         \A c \in cfg.non_free_metrics : SamplesUnder(c) = cfg.iterations

\* Two requested iterations over the two groups {A, CYCLES, X} and
\* {B, CYCLES, X} have returned: four samples of each free counter, two of
\* each requested one.
C36_Witness ==
  /\ RunReturned
  /\ ibmperf
  /\ cfg.iterations = 2
  /\ Len(ibmperf_groups) = 2
  /\ cfg.ibmperf_metrics = {"A", "B"}
  /\ cfg.free_metrics = {"CYCLES", "X"}
  /\ SamplesUnder("X") = 4
  /\ SamplesUnder("A") = 2
  /\ SamplesUnder("B") = 2

----------------------------------------------------------------------------
C37_SuccessSeen ==
  /\ gen.pc = "done"
  /\ gen.count = 4
  /\ gen.ret = 0

\* Everything succeeded but five files were found: the function returned 1.
C37_WrongCountSeen ==
  /\ gen.pc = "done"
  /\ gen.count = 5
  /\ gen.ret = 1

----------------------------------------------------------------------------
(* Vocabulary of the test suite.                                           *)

\* The kinds of test whose run fails: by returning failure, by raising
\* TestFailure, by raising another exception.
FailingKinds == {"fails", "raises TestFailure", "raises error"}

\* The first test of the suite that raises another exception, or one past
\* the last test when none does.
FirstError ==
  IF \E k \in DOMAIN suite.tests : suite.tests[k] = "raises error"
    THEN CHOOSE k \in DOMAIN suite.tests :
           /\ suite.tests[k] = "raises error"
           /\ \A j \in 1..(k - 1) : suite.tests[j] # "raises error"
    ELSE Len(suite.tests) + 1

(* C38. TestSuite._Run calls Run on its tests in their order, each at most *)
(* once, and goes on after a test that returned failure. When it returns,  *)
(* Run was called on every test, and it returns True if and only if every  *)
(* call returned True. When a test raises an exception other than          *)
(* TestFailure, that exception leaves _Run and no later test is run. A     *)
(* success file is written for a test only when its run did not fail.      *)
C38_SuiteRunsAllReportsConjunction ==
  /\ \A k \in DOMAIN suite.runs : suite.runs[k].test = k
  /\ Len(suite.runs) <= Len(suite.tests)
  /\ Len(suite.runs) <= FirstError
  /\ \A k \in DOMAIN suite.runs :
       /\ suite.runs[k].ret = "raised" <=> suite.tests[k] = "raises error"
       /\ suite.runs[k].file =>
            /\ suite.tests[k] \notin FailingKinds
            /\ suite.runs[k].ret = "True"
  /\ suite.pc = "returned" =>
       /\ Len(suite.runs) = Len(suite.tests)
       /\ suite.ret \in {"True", "False"}
       /\ suite.ret = "True" <=>
            \A k \in DOMAIN suite.runs : suite.runs[k].ret = "True"
  /\ suite.pc = "raised" =>
       /\ Len(suite.runs) = FirstError
       /\ suite.runs[Len(suite.runs)].ret = "raised"
  /\ (suite.pc = "running" /\ Len(suite.runs) = Len(suite.tests)) =>
       FirstError > Len(suite.tests)

\* The first test returned failure, the second was run all the same and
\* passed, writing its success file; the suite returned failure.
C38_Witness ==
  /\ suite.pc = "returned"
  /\ suite.tests = <<"fails", "passes">>
  /\ Len(suite.runs) = 2
  /\ ~suite.runs[1].file
  /\ suite.runs[2].file
  /\ suite.ret = "False"

\* The first test raised another exception: the second was not run.
C38_ErrorStopsSuite ==
  /\ suite.pc = "raised"
  /\ suite.tests = <<"raises error", "passes">>
  /\ Len(suite.runs) = 1

\* One test passed, the other needed no run and was not forced: the suite
\* returned success.
C38_AllPassed ==
  /\ suite.pc = "returned"
  /\ suite.tests = <<"passes", "up to date">>
  /\ ~suite.runs[2].ran
  /\ suite.ret = "True"

----------------------------------------------------------------------------
\* The units passed by the recorded calls for one key, in recording order.
UnitsOf(key) ==
  [k \in DOMAIN AddedFor(key) |-> AddedFor(key)[k].add.units]

\* The sink holds, for every key, the unit of the first recorded call for
\* that key and the samples of all the recorded calls, in order.
C39_UnitOfFirstCallStored ==
  \A key \in DOMAIN results :
    \E calls \in {AddedFor(key)} :
      /\ calls # <<>>
      /\ results[key].units = calls[1].add.units
      /\ results[key].samples = [k \in DOMAIN calls |-> calls[k].add.sample]

\* No step removes a key or changes the unit stored for it.
C39_StoredUnitNeverChanges ==
  \A key \in DOMAIN results :
    /\ key \in DOMAIN results'
    /\ results'[key].units = results[key].units

(* C39. The unit stored for a Metric Key is the unit of the first          *)
(* _AddResult call for that key: every later call for the same             *)
(* (graph, trace), whatever unit it passes, appends its sample and leaves  *)
(* the stored unit as it was.                                              *)
C39_UnitFixedByFirstCall ==
  []C39_UnitOfFirstCallStored /\ [][C39_StoredUnitNeverChanges]_vars

\* Three calls for one key passed the units "s", "", "s": the key holds
\* three samples under the unit "s".
C39_Witness ==
  \E key \in DOMAIN results :
    /\ Len(UnitsOf(key)) = 3
    /\ UnitsOf(key)[1] = "s"
    /\ UnitsOf(key)[2] = ""
    /\ Len(results[key].samples) = 3
    /\ results[key].units = "s"

====
